---- MODULE Spec2Model ----
(***************************************************************************)
(* Model of djinni_build: the orchestrator DjinniBuild.main and the build  *)
(* contexts it drives.  The repository holds two entry points: the package *)
(* src/djinni_build/ (script = "package") and the older single-file script *)
(* src/djinni_build.py (script = "legacy").  One run of main is modelled   *)
(* as a sequential state machine; every call into conan, lipo, xcodebuild, *)
(* gradlew or nuget is an event appended to log, with the outcome of the   *)
(* external tool chosen nondeterministically.                              *)
(*                                                                         *)
(* An enum member is identified by its name; arguments.package_types holds *)
(* the set of the members given (main only tests membership and           *)
(* truthiness of that list).                                               *)
(***************************************************************************)
EXTENDS Integers, Sequences, FiniteSets, TLC

VARIABLES script, environ, arguments, pc, contexts, log, returned, fs, status, heap

vars == <<script, environ, arguments, pc, contexts, log, returned, fs, status, heap>>

----------------------------------------------------------------------------
(* Bounds of the explored command lines *)

\* platform flags on one command line
MaxFlags == 2

\* architecture tokens on one command line, all flags together
MaxTokens == 2

\* values after --package
MaxPkgs == 2

----------------------------------------------------------------------------
(* argparse_enums.py *)

\* a registry in which the conan name of armv8 is not the name of the member
Architecture_ConanRenamed ==
  [ x86_64 |-> [conan |-> "x86_64", android |-> "x86_64",      windows |-> "win10-x64",   bit |-> "64"],
    x86    |-> [conan |-> "x86",    android |-> "x86",         windows |-> "win10-x86",   bit |-> "32"],
    armv8  |-> [conan |-> "arm64",  android |-> "arm64-v8a",   windows |-> "win10-arm64", bit |-> "64"],
    armv7  |-> [conan |-> "armv7",  android |-> "armeabi-v7a", windows |-> "win10-arm",   bit |-> "32"] ]

Architecture ==
  [ x86_64 |-> [conan |-> "x86_64", android |-> "x86_64",      windows |-> "win10-x64",   bit |-> "64"],
    x86    |-> [conan |-> "x86",    android |-> "x86",         windows |-> "win10-x86",   bit |-> "32"],
    armv8  |-> [conan |-> "armv8",  android |-> "arm64-v8a",   windows |-> "win10-arm64", bit |-> "64"],
    armv7  |-> [conan |-> "armv7",  android |-> "armeabi-v7a", windows |-> "win10-arm",   bit |-> "32"] ]

BuildConfiguration == [ release |-> "Release", debug |-> "Debug" ]

PackageType ==
  [ xcframework  |-> "XCFramework",
    swiftpackage |-> "Swift Package",
    conan        |-> "Conan",
    aar          |-> "Android Archive",
    nuget        |-> "NuGet" ]

\* the members of an enum class: each has a name and a value
Members(cls) == {[name |-> n, value |-> cls[n]] : n \in DOMAIN cls}

\* str.lower on the strings the model hands to from_string
Lower(string) ==
  CASE string \in {"ARMV8", "Armv8"}     -> "armv8"
    [] string \in {"Release", "RELEASE"} -> "release"
    [] string = "XCFramework"            -> "xcframework"
    [] string = "Conan"                  -> "conan"
    [] string = "AAR"                    -> "aar"
    [] OTHER                             -> string

\* a lookup that ignores the case of the string
from_string_AnyCase(cls, string) ==
  IF \E m \in Members(cls) : m.name = Lower(string)
    THEN [raised |-> "", member |-> CHOOSE m \in Members(cls) : m.name = Lower(string)]
    ELSE [raised |-> "ValueError"]

\* cls[string]: the member of that name; KeyError turned into ValueError
from_string(cls, string) ==
  IF \E m \in Members(cls) : m.name = string
    THEN [raised |-> "", member |-> CHOOSE m \in Members(cls) : m.name = string]
    ELSE [raised |-> "ValueError"]

\* ArgparseEnum.__str__
Str(member) == member.name

----------------------------------------------------------------------------
(* The command line *)

Platforms == {"android", "macos", "iphonesimulator", "iphoneos", "windows", "linux"}

DarwinPlatforms == {"macos", "iphonesimulator", "iphoneos"}

\* choices= of each platform flag
Choices(p) ==
  CASE p = "macos"           -> {"armv8", "x86_64"}
    [] p = "iphonesimulator" -> {"armv8", "x86_64"}
    [] p = "iphoneos"        -> {"armv8", "armv7"}
    [] OTHER                 -> DOMAIN Architecture

\* the tokens typed after a platform flag in the explored command lines:
\* two registry names (x86_64 is not among the choices of --iphoneos) and one
\* name that is in no registry
ArchTokens == {"x86_64", "armv8", "arm64"}

PackageTokens == DOMAIN PackageType \cup {"apk"}

Range(s) == {s[i] : i \in 1..Len(s)}

\* token lists without repetition, of at most n tokens
TokenLists(n) ==
  UNION {{s \in [1..k -> ArchTokens] : Cardinality(Range(s)) = k} : k \in 0..n}

\* the value argparse stores for a flag: None when the flag is absent
NoneValue == [given |-> FALSE, archs |-> <<>>]

ListValue(s) == [given |-> TRUE, archs |-> s]

\* truthiness of a list-or-None value
Truthy(v) == v.given /\ v.archs # <<>>

\* the values of the platform flags ps, with at most flags of them present
\* and at most tokens architecture tokens in all
RECURSIVE FlagValues(_, _, _)
FlagValues(ps, flags, tokens) ==
  IF ps = {} THEN {<<>>}
  ELSE LET p == CHOOSE x \in ps : TRUE IN
       {(p :> NoneValue) @@ g : g \in FlagValues(ps \ {p}, flags, tokens)}
         \cup (IF flags = 0 THEN {}
               ELSE UNION {{(p :> ListValue(s)) @@ g :
                               g \in FlagValues(ps \ {p}, flags - 1, tokens - Len(s))} :
                           s \in TokenLists(tokens)})

CommandLines == FlagValues(Platforms, MaxFlags, MaxTokens)

\* --package absent, or present with at most MaxPkgs values
PackageValues ==
  {[given |-> FALSE, types |-> {}]}
    \cup {[given |-> TRUE, types |-> T] :
             T \in {U \in SUBSET PackageTokens : Cardinality(U) <= MaxPkgs}}

\* the Namespace parse_args returns, its members kept by their names
\* (--clean of the legacy script is used at once and not kept)
Namespace(f, pkg) == [architectures |-> f, package_types |-> pkg]

EmptyNamespace ==
  Namespace([p \in Platforms |-> NoneValue], [given |-> FALSE, types |-> {}])

\* a parser without choices=: only from_string rejects a token
Invalid_FromStringOnly(p) ==
  {u \in ArchTokens : from_string(Architecture, u).raised = "ValueError"}

\* the tokens argparse rejects after flag p: from_string fails, or the member
\* is not among the flag's choices
Invalid(p) ==
  {u \in ArchTokens : from_string(Architecture, u).raised = "ValueError" \/ u \notin Choices(p)}

InvalidPackages == {u \in PackageTokens : from_string(PackageType, u).raised = "ValueError"}

\* the (flag, token) pairs of a command line that argparse rejects
RejectedArchs(f) ==
  UNION {{<<p, f[p].archs[i]>> : i \in {j \in 1..Len(f[p].archs) : f[p].archs[j] \in Invalid(p)}} :
            p \in Platforms}

RejectedPackages(pkg) == {<<"package", t>> : t \in pkg.types \cap InvalidPackages}

\* the command lines parse_args accepts
AcceptedLines == {f \in CommandLines : RejectedArchs(f) = {}}

AcceptedPackages == {pkg \in PackageValues : RejectedPackages(pkg) = {}}

\* what parse_args can report of the command lines it rejects
Rejections ==
  UNION {RejectedArchs(f) : f \in CommandLines}
    \cup UNION {RejectedPackages(pkg) : pkg \in PackageValues}

----------------------------------------------------------------------------
(* Constructing the build contexts *)

\* sdk= of the three DarwinBuildContext objects
Sdk(p) ==
  CASE p = "macos"           -> "macosx"
    [] p = "iphoneos"        -> "iphoneos"
    [] p = "iphonesimulator" -> "iphonesimulator"
    [] OTHER                 -> ""

\* the parameters BuildContext.__init__ binds from its caller
BaseParams ==
  IF script = "package"
    THEN {"conan", "working_directory", "build_directory", "host_profile", "build_profile",
          "architectures", "configuration", "conan_user", "conan_channel"}
    ELSE {"conan", "working_directory", "version", "build_directory", "profile",
          "architectures", "configuration", "conan_user", "conan_channel"}

\* the parameters without default of each context class's __init__
RequiredParams(p) ==
  CASE p = "android" ->
         IF script = "package"
           THEN {"conan", "working_directory", "android_target", "android_target_dir", "version",
                 "build_directory", "host_profile", "build_profile", "architectures",
                 "configuration", "conan_user", "conan_channel", "android_project_dir",
                 "android_module_name"}
           ELSE BaseParams \cup {"android_target", "android_target_dir", "android_ndk",
                 "conan_cmake_toolchain_file", "android_project_dir", "android_module_name"}
    [] p \in DarwinPlatforms ->
         BaseParams \cup {"darwin_target", "darwin_target_dir", "sdk"}
    [] p = "windows" ->
         IF script = "package"
           THEN {"conan", "working_directory", "windows_target", "windows_target_dir", "version",
                 "build_directory", "host_profile", "build_profile", "architectures",
                 "configuration", "conan_user", "conan_channel", "nupkg_dir",
                 "nupkg_net_version", "nupkg_name"}
           ELSE BaseParams \cup {"windows_target", "windows_target_dir", "nupkg_dir", "nupkg_name"}
    [] OTHER -> BaseParams

\* the keyword arguments main passes to each constructor
PassedParams(p) ==
  CASE p = "android" ->
         BaseParams \cup {"android_target", "android_target_dir", "android_module_name",
                          "android_project_dir"}
           \cup (IF script = "legacy" THEN {"android_ndk", "conan_cmake_toolchain_file"} ELSE {})
    [] p \in DarwinPlatforms ->
         BaseParams \cup {"darwin_target", "darwin_target_dir", "sdk"}
    [] p = "windows" ->
         BaseParams \cup {"windows_target", "windows_target_dir", "nupkg_dir", "nupkg_name"}
    [] OTHER -> BaseParams

\* Python binds a call when every parameter without default is passed and
\* every keyword passed is a parameter; otherwise the call raises TypeError
\* (no context class of the repository takes a parameter with a default
\* that main passes)
CallBinds(p) == PassedParams(p) = RequiredParams(p)

\* BuildContext.__init__ of the package reads the version through conan.inspect
InspectsVersion == script = "package"

----------------------------------------------------------------------------
(* Program positions, events, exits *)

At(plat, phase, i) == [plat |-> plat, phase |-> phase, i |-> i]

Running == [code |-> -1, error |-> "running", detail |-> <<>>]

Event(op, plat, arch, folder, ok) ==
  [op |-> op, plat |-> plat, arch |-> arch, folder |-> folder, ok |-> ok, args |-> <<>>]

\* one argument of a command line: a flag, a path, or a flag with its path
Arg(flag, path) == [flag |-> flag, path |-> path]

\* a call of an external tool with its argument list
ToolEvent(op, plat, args, ok) ==
  [op |-> op, plat |-> plat, arch |-> "", folder |-> <<>>, ok |-> ok, args |-> args]

\* build_directory of the context of platform p
BuildDirectory(p) ==
  IF script = "package"
    THEN (IF p \in DarwinPlatforms THEN <<"darwin", Sdk(p)>> ELSE <<p>>)
    ELSE (IF p = "iphoneos" THEN <<"iphone">> ELSE <<p>>)

\* the name of the folder conan installs and builds architecture a in:
\* architecture.name (the legacy script: architecture.value.conan)
FolderName(a) == IF script = "package" THEN a ELSE Architecture[a].conan

\* the name of the folder _lipo_combine copies the reference bundle from:
\* architectures[0].value.conan (the legacy script: str(architectures[0]))
ReferenceFolder(a) == IF script = "package" THEN Architecture[a].conan ELSE a

\* build_directory / <folder of a>
ArchFolder(p, a) == Append(BuildDirectory(p), FolderName(a))

Archs(p) == arguments.architectures[p].archs

\* `PackageType.x in arguments.package_types`
In(pt, v) ==
  IF ~v.given THEN "TypeError" ELSE IF pt \in v.types THEN "True" ELSE "False"

\* the membership test without the truthiness guard in front of it
GuardedIn_Bare(pt, v) == In(pt, v)

\* `arguments.package_types and PackageType.x in arguments.package_types`
GuardedIn(pt, v) ==
  IF ~(v.given /\ v.types # {}) THEN "False" ELSE In(pt, v)

\* the legacy script tests the Windows and Linux package types without the
\* truthiness guard
UnguardedIn(pt, v) == In(pt, v)

\* the value of the package-type test main makes for platform p
Selected(p, pt) ==
  IF script = "legacy" /\ p \in {"windows", "linux"}
    THEN UnguardedIn(pt, arguments.package_types)
    ELSE GuardedIn(pt, arguments.package_types)

----------------------------------------------------------------------------
(* The working directory of the process *)

\* the directory the modules were imported in: os.getcwd() when the default
\* of working_dir of _execute was evaluated; the explored runs import them
\* in the root of the project
ImportDirectory == "working_directory"

\* the directories a caller stands in when it calls a method
StartDirectories == {"working_directory", "elsewhere"}

\* an _execute that stays where the command ran
Execute_Staying(c, working_dir) == working_dir

\* BuildContext._execute called in directory c
Execute(c, working_dir) ==
  LET cwd    == c             \* cwd = os.getcwd()
      during == working_dir   \* os.chdir(working_dir), then the command
      after  == cwd           \* os.chdir(cwd)
  IN  after

\* the directory after lipo or xcodebuild ran: the package runs them with
\* _execute and the default working_dir, the legacy script with os.system
\* where it stands
AfterTool(e) ==
  [e EXCEPT !.cwd = IF script = "package" THEN Execute(e.cwd, e.imported) ELSE e.cwd]

\* the directory after gradlew or nuget ran: os.chdir(<project folder>), the
\* command, os.chdir(self.working_directory)
AfterProjectTool(e) == [e EXCEPT !.cwd = "working_directory"]

----------------------------------------------------------------------------
(* The lists of the contexts *)

\* one entry `key=value` of a settings or env list
Entry_(k, v) == [key |-> k, value |-> v]

\* The list objects that outlive a call: the default `[]` of the env and
\* settings parameters of BuildContext.__init__, conan_install and
\* conan_create, and the env and settings lists of each context object (empty
\* until the context is constructed).
InitialHeap ==
  [defaults |-> [f \in {"__init__", "conan_install", "conan_create"} |->
                   [env |-> <<>>, settings |-> <<>>]],
   self     |-> [p \in Platforms |-> [env |-> <<>>, settings |-> <<>>]]]

\* the env= argument of the constructor call: only the Android context of
\* the legacy script passes one, the others leave the default
ConstructorEnv(h, p) ==
  IF script = "legacy" /\ p = "android"
    THEN <<Entry_("CONAN_CMAKE_TOOLCHAIN_FILE", "conan_cmake_toolchain_file"),
           Entry_("ANDROID_NDK", "android_ndk")>>
    ELSE h.defaults["__init__"].env

\* BuildContext.__init__: self.env and self.settings are new lists
Constructed(h, p) ==
  [env      |-> <<Entry_("CONAN_RUN_TESTS", "False")>> \o ConstructorEnv(h, p),
   settings |-> <<Entry_("build_type", "configuration.value")>> \o h.defaults["__init__"].settings]

\* the heap after the construction of the contexts ps
ConstructAll(h, ps) ==
  [h EXCEPT !.self = [p \in Platforms |-> IF p \in ps THEN Constructed(h, p) ELSE @[p]]]

\* the settings= argument install() and conan_create_all() of the context
\* of p pass to method f for every architecture
CallerSettings(h, p, f) ==
  IF p \in DarwinPlatforms THEN <<Entry_("os.sdk", Sdk(p))>> ELSE h.defaults[f].settings

\* the env= argument they pass for architecture a
CallerEnv(h, p, f, a) ==
  IF script = "legacy" /\ p = "android" THEN <<Entry_("ANDROID_ABI", Architecture[a].android)>>
                                        ELSE h.defaults[f].env

\* a merge that leaves the architecture out
AllSettings_NoArch(h, p, f, a) == CallerSettings(h, p, f) \o h.self[p].settings

\* all_settings = settings + self.settings + [f"arch={architecture.value.conan}"]
AllSettings(h, p, f, a) ==
  CallerSettings(h, p, f) \o h.self[p].settings \o <<Entry_("arch", Architecture[a].conan)>>

\* all_env = env + self.env
AllEnv(h, p, f, a) == CallerEnv(h, p, f, a) \o h.self[p].env

\* a merge that extends the list of the context in place
AfterMerge_InPlace(h, p, f, a) ==
  [h EXCEPT !.self[p].settings = @ \o <<Entry_("arch", Architecture[a].conan)>>]

\* the heap after conan_install or conan_create: `+` makes new lists, no
\* list of the context or of the defaults is changed
AfterMerge(h, p, f, a) == h

\* the keyword arguments of conan.install
InstallArguments(h, p, a) ==
  <<Arg("settings", AllSettings(h, p, "conan_install", a)),
    Arg("env", AllEnv(h, p, "conan_install", a))>>

\* the keyword arguments of conan.create
CreateArguments(h, p, a) ==
  <<Arg("settings", AllSettings(h, p, "conan_create", a)),
    Arg("env", AllEnv(h, p, "conan_create", a)),
    Arg("user", <<"conan_user">>),
    Arg("channel", <<"conan_channel">>)>>

----------------------------------------------------------------------------
(* The control flow of main *)

\* the test main makes before the block of platform p
Requested(p, args) ==
  IF p \in DarwinPlatforms THEN args.architectures[p].given
                           ELSE Truthy(args.architectures[p])

\* a gate that looks at the package types only
XcframeworkGuard_TypesOnly(args) ==
  GuardedIn("xcframework", args.package_types) = "True"

\* the gate of the XCFramework assembly
XcframeworkGuard(args) ==
  IF script = "package"
    THEN GuardedIn("xcframework", args.package_types) = "True"
           /\ \E p \in DarwinPlatforms : args.architectures[p].given
    ELSE GuardedIn("xcframework", args.package_types) = "True"

\* an order of main with the XCFramework assembly ahead of the iPhoneOS block
MainOrder_XcframeworkEarly ==
  <<"android", "contexts", "macos", "iphonesimulator", "xcframework", "iphoneos",
    "windows", "linux">>

\* the statements of main in their order: the block of each platform, the
\* construction of the Darwin contexts and the XCFramework assembly
MainOrder ==
  <<"android", "contexts", "macos", "iphonesimulator", "iphoneos", "xcframework",
    "windows", "linux">>

\* the next position main stops at, from statement k on, skipping the blocks
\* whose test is false
RECURSIVE EntryFrom(_, _)
EntryFrom(k, args) ==
  IF k > Len(MainOrder) THEN At("main", "done", 0)
  ELSE LET b == MainOrder[k] IN
       IF b = "contexts" THEN At("darwin", "contexts", 0)
       ELSE IF b = "xcframework"
         THEN (IF XcframeworkGuard(args) THEN At("darwin", "xcframework", 0)
                                         ELSE EntryFrom(k + 1, args))
       ELSE IF Requested(b, args) THEN At(b, "enter", 0)
       ELSE EntryFrom(k + 1, args)

Index(b) == CHOOSE k \in 1..Len(MainOrder) : MainOrder[k] = b

Entry(b, args) == EntryFrom(Index(b), args)

\* where main continues after the block of platform p
Leave(p) == EntryFrom(Index(p) + 1, arguments)

\* after the XCFramework assembly: the nested swiftpackage test
AfterXcframework ==
  IF GuardedIn("swiftpackage", arguments.package_types) = "True"
    THEN At("darwin", "swiftpackage", 0)
    ELSE Leave("xcframework")

\* the conan test that ends the block of platform p
AfterPackage(p) ==
  LET g == Selected(p, "conan") IN
  IF g = "TypeError" THEN At(p, "raise", 0)
  ELSE IF g = "True" /\ Archs(p) # <<>> THEN At(p, "create", 1)
  ELSE Leave(p)

\* the platform's own packaging step, if it has one
PackageTypeOf(p) ==
  CASE p = "android" -> "aar"
    [] p = "windows" -> "nuget"
    [] OTHER         -> ""

\* main after build() returned
AfterBuild(p) ==
  IF PackageTypeOf(p) = "" THEN AfterPackage(p)
  ELSE LET g == Selected(p, PackageTypeOf(p)) IN
       IF g = "TypeError" THEN At(p, "raise", 0)
       ELSE IF g = "True" THEN At(p, "package", 0)
       ELSE AfterPackage(p)

\* a build() that merges whenever the list is not empty
AfterBuildLoop_Always(p) ==
  IF p \in DarwinPlatforms /\ Len(Archs(p)) > 0 THEN At(p, "lipo", 0) ELSE AfterBuild(p)

\* DarwinBuildContext.build after the loop of BuildContext.build
AfterBuildLoop(p) ==
  IF p \in DarwinPlatforms /\ Len(Archs(p)) > 1 THEN At(p, "lipo", 0) ELSE AfterBuild(p)

\* a block that calls build() without install()
StartInstall_BuildOnly(p) ==
  IF Archs(p) # <<>> THEN At(p, "build", 1) ELSE AfterBuildLoop(p)

\* install() then build(): both loop over the architectures
StartInstall(p) ==
  IF Archs(p) # <<>> THEN At(p, "install", 1) ELSE AfterBuildLoop(p)

\* the methods of the context of p that have returned when control is at q
ReturnedAt(p, q) ==
  LET r == IF q.plat # p THEN 5
           ELSE CASE q.phase = "install"   -> 1
                  [] q.phase = "build"     -> 2
                  [] q.phase = "lipo"      -> 3
                  [] q.phase = "lipo_dsym" -> 4
                  [] OTHER                 -> 5
  IN  (IF r > 1 THEN {<<p, "install">>} ELSE {}) \cup (IF r > 4 THEN {<<p, "build">>} ELSE {})

ExitStatus(code, error, detail) == [code |-> code, error |-> error, detail |-> detail]

\* control moves on inside or out of the block of the constructed context p
Goto(p, q) ==
  /\ pc' = q
  /\ returned' = returned \cup ReturnedAt(p, q)
  /\ status' = IF q.phase = "done" THEN ExitStatus(0, "none", <<>>) ELSE status

\* control moves on without a context
Skip(q) ==
  /\ pc' = q
  /\ status' = IF q.phase = "done" THEN ExitStatus(0, "none", <<>>) ELSE status
  /\ UNCHANGED returned

\* sys.exit, or an exception nobody catches (exit status 1)
Fail(code, error, detail) ==
  /\ pc' = At("main", "exit", 0)
  /\ status' = ExitStatus(code, error, detail)
  /\ UNCHANGED returned

----------------------------------------------------------------------------
(* Files *)

\* the file system as far as the run knows it: the content of every path it
\* has written or looked at.  A path outside the domain does not exist,
\* except that what `conan build` left in the build folder of an
\* architecture is found out when the run first looks (Looks).
Missing == <<"ENOENT">>

Exists(f, x) == x \in DOMAIN f /\ f[x] # Missing

\* the architectures in the order of their definition
ArchOrder == <<"x86_64", "x86", "armv8", "armv7">>

\* '_'.join(map(str, architectures)), as the pieces of the joined name
RECURSIVE Join(_)
Join(archs) ==
  IF Len(archs) <= 1 THEN archs
  ELSE <<Head(archs), "_">> \o Join(Tail(archs))

\* DarwinBuildContext.target_folder
TargetFolder(p) ==
  IF Sdk(p) \in {"iphoneos", "iphonesimulator"} THEN <<"configuration", "-", Sdk(p)>>
                                                ELSE <<"configuration">>

\* build_directory / <folder> / target_dir / target_folder of the Darwin
\* variant p, for the folder of one architecture or of the combined binary
FrameworkBase(p, folder) ==
  <<"build">> \o BuildDirectory(p) \o folder \o <<"darwin_target_dir">> \o TargetFolder(p)

Framework(p, folder) == Append(FrameworkBase(p, folder), "target.framework")

Dsym(p, folder) == Append(FrameworkBase(p, folder), "target.framework.dSYM")

\* the binary at the top level of the bundle, whatever the sdk
Binary_TopLevel(p, bundle) == bundle \o <<"target">>

\* the binary inside a framework bundle
Binary(p, bundle) ==
  IF Sdk(p) = "macosx" THEN bundle \o <<"Versions", "A", "target">>
                       ELSE bundle \o <<"target">>

\* the DWARF file looked for at the top level of the dSYM bundle
Dwarf_TopLevel(bundle) == bundle \o <<"target">>

\* the DWARF file inside a dSYM bundle
Dwarf(bundle) == bundle \o <<"Contents", "Resources", "DWARF", "target">>

CombinedFramework(p) == Framework(p, Join(Archs(p)))

CombinedDsym(p) == Dsym(p, Join(Archs(p)))

\* what the build of architecture a leaves for the Android and Windows
\* packaging steps
SoSource(a) == <<"build">> \o ArchFolder("android", a) \o <<"android_target_dir", "libtarget.so">>

JarSource(a) == <<"build">> \o ArchFolder("android", a) \o <<"android_target_dir", "target.jar">>

\* build_directory / architecture.name / ... in both scripts
DllSource(a, name) ==
  <<"build">> \o BuildDirectory("windows") \o <<a, "windows_target_dir", "configuration", name>>

\* a jniLibs folder named after the conan name of the architecture
SoFile_ByConanName(a) ==
  <<"android_project", "module", "src", "main", "jniLibs", Architecture[a].conan, "libtarget.so">>

SoFile(a) ==
  <<"android_project", "module", "src", "main", "jniLibs", Architecture[a].android, "libtarget.so">>

JarFile == <<"android_project", "module", "libs", "target.jar">>

ProjectAar == <<"android_project", "module", "build", "outputs", "aar", "module-release.aar">>

BuildAar == <<"build", "android", "module.aar">>

Xcframework == <<"build", "darwin", "package", "target.xcframework">>

SwiftpackageXcframework == <<"build", "darwin", "swiftpackage", "bin", "target.xcframework">>

SourceTreeXcframework == <<"swiftpackage_dir", "bin", "target.xcframework">>

BuildSwiftpackage == <<"build", "darwin", "swiftpackage">>

\* nupkg_net_version: 'net5.0' is written into the paths of the legacy script
NetVersion == IF script = "legacy" THEN "net5.0" ELSE "nupkg_net_version"

NugetRef == <<"nupkg_dir", "lib", NetVersion, "target.dll">>

\* a runtimes folder named after the word size of the architecture
NugetRuntime_ByBit(a, name) ==
  <<"nupkg_dir", "runtimes", Architecture[a].bit, "lib", NetVersion, name>>

NugetRuntime(a, name) ==
  <<"nupkg_dir", "runtimes", Architecture[a].windows, "lib", NetVersion, name>>

Nuspec == <<"nupkg_dir", "nupkg_name.nuspec">>

NuspecTemplate == <<"nupkg_dir", "nupkg_name.nuspec.template">>

Nupkg == <<"nupkg_dir", "nupkg_name.version.nupkg">>

BuildNupkg == <<"build", "windows", "nupkg_name.version.nupkg">>

\* the paths `conan build` writes below the build folders of the
\* architectures
BuildOutputs ==
  UNION {{<<"build">> \o ArchFolder("android", a) \o <<"android_target_dir", "libtarget.so">>,
          <<"build">> \o ArchFolder("android", a) \o <<"android_target_dir", "target.jar">>,
          <<"build">> \o ArchFolder("windows", a) \o <<"windows_target_dir", "configuration", "target.dll">>,
          <<"build">> \o ArchFolder("windows", a) \o <<"windows_target_dir", "configuration", "Ijwhost.dll">>}
           \cup UNION {{Framework(p, <<FolderName(a)>>), Dsym(p, <<FolderName(a)>>)} :
                       p \in DarwinPlatforms} :
         a \in DOMAIN Architecture}

\* the literal '{version}'
Placeholder == <<"{", "v", "e", "r", "s", "i", "o", "n", "}">>

\* the version of the recipe in the explored runs
Version == <<"1", ".", "0">>

\* the nuspec template of the source tree in the explored runs
Template == <<"<", "v", ">">> \o Placeholder \o <<"<", "/", "v", ">", "\n">>

\* what is found at a path of the build folders or of the source tree that
\* the run has not looked at before
Found(x) == IF x = NuspecTemplate THEN Template ELSE <<"conan build">> \o x

\* the file systems the run may find when it looks at path x
Looks(f, x) ==
  IF x \in DOMAIN f \/ x \notin BuildOutputs \cup {NuspecTemplate} THEN {f}
  ELSE {(x :> Missing) @@ f, (x :> Found(x)) @@ f}

\* a write of data at path x, replacing what was there
Write(f, x, data) == (x :> data) @@ f

\* a copy that adds to what is at the destination
Copy_Appending(f, src, dst) ==
  Write(f, dst, IF dst \in DOMAIN f /\ f[dst] # Missing THEN f[dst] \o f[src] ELSE f[src])

\* shutil.copy, shutil.copytree into a path that does not exist
Copy(f, src, dst) == Write(f, dst, f[src])

\* a removal that leaves everything in place
Remove_Nothing(f, xs) == f

\* shutil.rmtree, os.remove
Remove(f, xs) == [x \in DOMAIN f \ xs |-> f[x]]

\* the copies <<src, dst>> made one after the other, up to the first whose
\* source is missing: the file systems that may result, with the number of
\* copies made
RECURSIVE Copies(_, _)
Copies(f, pairs) ==
  IF pairs = <<>> THEN {[fs |-> f, done |-> 0]}
  ELSE UNION {IF Exists(g, pairs[1][1])
                THEN {[fs |-> r.fs, done |-> r.done + 1] :
                        r \in Copies(Copy(g, pairs[1][1], pairs[1][2]), Tail(pairs))}
                ELSE {[fs |-> g, done |-> 0]} :
              g \in Looks(f, pairs[1][1])}

\* what an archiving tool makes of the files at the paths xs
RECURSIVE Pack(_, _)
Pack(f, xs) ==
  IF xs = <<>> THEN <<>>
  ELSE (IF Exists(f, Head(xs)) THEN <<"[">> \o Head(xs) \o <<"=">> \o f[Head(xs)] \o <<"]">>
                               ELSE <<>>) \o Pack(f, Tail(xs))

\* DjinniBuild.clean of the legacy script: removes what earlier runs copied
\* outside the build folder
Clean(f) ==
  Remove(f, {JarFile, Nupkg, NugetRef, Nuspec, SourceTreeXcframework}
              \cup {SoFile(a) : a \in DOMAIN Architecture}
              \cup {NugetRuntime(a, "target.dll") : a \in DOMAIN Architecture}
              \cup {NugetRuntime(a, "Ijwhost.dll") : a \in DOMAIN Architecture})

----------------------------------------------------------------------------
(* The run *)

\* A run of either entry point.  Only the legacy script reads
\* ANDROID_NDK_HOME, so the package is run with the variable unset only.
\* The explored runs are on a host whose line separator is the line feed.
Init ==
  /\ script \in {"package", "legacy"}
  /\ environ \in [ANDROID_NDK_HOME : IF script = "legacy" THEN BOOLEAN ELSE {FALSE},
                   version : {Version}, linesep : {<<"\n">>},
                   cwd : {ImportDirectory}, imported : {ImportDirectory}]
  /\ arguments = EmptyNamespace
  /\ pc = At("main", "parse_args", 0)
  /\ contexts = {}
  /\ log = <<>>
  /\ returned = {}
  /\ fs = <<>>
  /\ status = Running
  /\ heap = InitialHeap

\* parser.parse_args(): a rejected token ends the run with the usage text
\* and status 2; the legacy script then runs clean() when --clean was given
ParseArgs ==
  /\ pc = At("main", "parse_args", 0)
  /\ \/ /\ \E r \in Rejections : Fail(2, "argparse", r)
        /\ UNCHANGED <<arguments, fs>>
     \/ \E f \in AcceptedLines, pkg \in AcceptedPackages,
           cleanup \in (IF script = "legacy" THEN BOOLEAN ELSE {FALSE}) :
          /\ arguments' = Namespace(f, pkg)
          /\ fs' = IF cleanup THEN Clean(fs) ELSE fs
          /\ Skip(Entry("android", Namespace(f, pkg)))
  /\ UNCHANGED <<script, environ, heap, contexts, log>>

\* the start of the block of Android, Windows or Linux: the construction of
\* the context (the legacy script first reads ANDROID_NDK_HOME)
EnterPlatform(p) ==
  /\ pc = At(p, "enter", 0)
  /\ Requested(p, arguments)
  /\ IF script = "legacy" /\ p = "android" /\ ~environ.ANDROID_NDK_HOME
       THEN Fail(1, "missing_parameter", <<"ANDROID_NDK_HOME">>) /\ UNCHANGED <<contexts, log>>
     ELSE IF ~CallBinds(p)
       THEN Fail(1, "TypeError", <<p>>) /\ UNCHANGED <<contexts, log>>
     ELSE IF InspectsVersion
       THEN \E ok \in BOOLEAN :
              /\ log' = Append(log, Event("inspect", p, "", <<>>, ok))
              /\ IF ok THEN contexts' = contexts \cup {p} /\ Goto(p, StartInstall(p))
                       ELSE Fail(1, "ConanException", <<"inspect">>) /\ UNCHANGED contexts
     ELSE /\ contexts' = contexts \cup {p}
          /\ Goto(p, StartInstall(p))
          /\ UNCHANGED log
  /\ heap' = ConstructAll(heap, contexts' \ contexts)
  /\ UNCHANGED <<script, environ, arguments, fs>>

\* the order in which main constructs the three Darwin contexts
DarwinOrder == <<"macos", "iphoneos", "iphonesimulator">>

\* the three DarwinBuildContext objects are constructed whether or not their
\* flag was given; k of the constructions succeed
DarwinContexts ==
  /\ pc = At("darwin", "contexts", 0)
  /\ IF \E i \in 1..3 : ~CallBinds(DarwinOrder[i])
       THEN Fail(1, "TypeError", <<"darwin">>) /\ UNCHANGED <<contexts, log>>
     ELSE IF InspectsVersion
       THEN \E k \in 0..3 :
              /\ log' = log \o [i \in 1..(IF k < 3 THEN k + 1 ELSE 3) |->
                                  Event("inspect", DarwinOrder[i], "", <<>>, i <= k)]
              /\ contexts' = contexts \cup {DarwinOrder[i] : i \in 1..k}
              /\ IF k = 3 THEN Skip(Leave("contexts"))
                          ELSE Fail(1, "ConanException", <<"inspect">>)
     ELSE /\ contexts' = contexts \cup DarwinPlatforms
          /\ Skip(Leave("contexts"))
          /\ UNCHANGED log
  /\ heap' = ConstructAll(heap, contexts' \ contexts)
  /\ UNCHANGED <<script, environ, arguments, fs>>

\* the start of the block of a Darwin variant
EnterDarwin(p) ==
  /\ pc = At(p, "enter", 0)
  /\ Requested(p, arguments)
  /\ Goto(p, StartInstall(p))
  /\ UNCHANGED <<script, environ, heap, arguments, contexts, log, fs>>

\* one iteration of install(): conan_install of the i-th architecture
Install(p) ==
  /\ pc.plat = p /\ pc.phase = "install"
  /\ LET a == Archs(p)[pc.i] IN
     \E ok \in BOOLEAN :
       /\ log' = Append(log, [Event("install", p, a, ArchFolder(p, a), ok)
                                EXCEPT !.args = InstallArguments(heap, p, a)])
       /\ heap' = AfterMerge(heap, p, "conan_install", a)
       /\ IF ~ok THEN Fail(1, "ConanException", <<"install">>)
          ELSE IF pc.i < Len(Archs(p)) THEN Goto(p, At(p, "install", pc.i + 1))
          ELSE Goto(p, At(p, "build", 1))
  /\ UNCHANGED <<script, environ, arguments, contexts, fs>>

\* a build() that stops after the first architecture
Build_FirstOnly(p) ==
  /\ pc.plat = p /\ pc.phase = "build"
  /\ LET a == Archs(p)[pc.i] IN
     \E ok \in BOOLEAN :
       /\ log' = Append(log, Event("build", p, a, ArchFolder(p, a), ok))
       /\ IF ~ok THEN Fail(1, "ConanException", <<"build">>)
          ELSE Goto(p, AfterBuildLoop(p))
  /\ UNCHANGED <<script, environ, heap, arguments, contexts, fs>>

\* one iteration of BuildContext.build(): conan.build of the i-th architecture
Build(p) ==
  /\ pc.plat = p /\ pc.phase = "build"
  /\ LET a == Archs(p)[pc.i] IN
     \E ok \in BOOLEAN :
       /\ log' = Append(log, Event("build", p, a, ArchFolder(p, a), ok))
       /\ IF ~ok THEN Fail(1, "ConanException", <<"build">>)
          ELSE IF pc.i < Len(Archs(p)) THEN Goto(p, At(p, "build", pc.i + 1))
          ELSE Goto(p, AfterBuildLoop(p))
  /\ UNCHANGED <<script, environ, heap, arguments, contexts, fs>>

\* one iteration of conan_create_all(): conan_create of the i-th architecture
ConanCreate(p) ==
  /\ pc.plat = p /\ pc.phase = "create"
  /\ LET a == Archs(p)[pc.i] IN
     \E ok \in BOOLEAN :
       /\ log' = Append(log, [Event("create", p, a, <<>>, ok)
                                EXCEPT !.args = CreateArguments(heap, p, a)])
       /\ heap' = AfterMerge(heap, p, "conan_create", a)
       /\ IF ~ok THEN Fail(1, "ConanException", <<"create">>)
          ELSE IF pc.i < Len(Archs(p)) THEN Goto(p, At(p, "create", pc.i + 1))
          ELSE Goto(p, Leave(p))
  /\ UNCHANGED <<script, environ, arguments, contexts, fs>>

\* a package-type test of the legacy script on --package None
Raise(p) ==
  /\ pc.plat = p /\ pc.phase = "raise"
  /\ Fail(1, "TypeError", <<"NoneType">>)
  /\ UNCHANGED <<script, environ, heap, arguments, contexts, log, fs>>

\* the arguments of a lipo call: the inputs in the order of the list, then
\* -create and -output
LipoArguments(inputs, output) ==
  [i \in 1..Len(inputs) |-> Arg("", inputs[i])] \o <<Arg("-create", <<>>), Arg("-output", output)>>

\* what lipo writes: one binary out of its inputs
Lipo(inputs) ==
  LET RECURSIVE cat(_)
      cat(xs) == IF xs = <<>> THEN <<>> ELSE <<"(">> \o Head(xs) \o <<")">> \o cat(Tail(xs))
  IN  <<"lipo">> \o cat(inputs)

\* _lipo_combine: copy the first architecture's framework to the combined
\* location, then run lipo over it; the status lipo returns is dropped.
\* The legacy script has no dSYM step.
LipoCombine(p) ==
  /\ pc.plat = p /\ pc.phase = "lipo"
  /\ LET archs  == Archs(p)
         src    == Framework(p, <<ReferenceFolder(archs[1])>>)
         inputs == [i \in 1..Len(archs) |-> Binary(p, Framework(p, <<archs[i]>>))]
         output == Binary(p, CombinedFramework(p))
         \* the legacy script removes the whole combined folder first
         stale  == {CombinedFramework(p), output}
                     \cup (IF script = "package" THEN {} ELSE {CombinedDsym(p), Dwarf(CombinedDsym(p))})
     IN \E g \in {Remove(h, stale) : h \in Looks(fs, src)} :
          IF ~Exists(g, src)
            THEN /\ fs' = g
                 /\ Fail(1, "FileNotFoundError", <<"framework">>)
                 /\ UNCHANGED <<log, environ>>
            ELSE \E ok \in BOOLEAN :
                   /\ fs' = Write(Copy(g, src, CombinedFramework(p)), output,
                                  IF ok THEN Lipo(inputs) ELSE Found(Binary(p, src)))
                   /\ log' = Append(log, [ToolEvent("lipo", p, LipoArguments(inputs, output), ok)
                                            EXCEPT !.folder = BuildDirectory(p)])
                   /\ environ' = AfterTool(environ)
                   /\ Goto(p, IF script = "package" THEN At(p, "lipo_dsym", 0) ELSE AfterBuild(p))
  /\ UNCHANGED <<script, heap, arguments, contexts>>

\* _lipo_combine_dsym: the same for the dSYM bundle, if the first
\* architecture has one
LipoCombineDsym(p) ==
  /\ pc.plat = p /\ pc.phase = "lipo_dsym"
  /\ LET archs  == Archs(p)
         src    == Dsym(p, <<Architecture[archs[1]].conan>>)
         inputs == [i \in 1..Len(archs) |-> Dwarf(Dsym(p, <<archs[i]>>))]
         output == Dwarf(CombinedDsym(p))
     IN \E g \in Looks(fs, src) :
          IF ~Exists(g, src)
            THEN fs' = g /\ Goto(p, AfterBuild(p)) /\ UNCHANGED <<log, environ>>
            ELSE \E ok \in BOOLEAN :
                   /\ fs' = Write(Copy(Remove(g, {CombinedDsym(p), output}), src, CombinedDsym(p)),
                                  output, IF ok THEN Lipo(inputs) ELSE Found(Dwarf(src)))
                   /\ log' = Append(log, [ToolEvent("lipo_dsym", p, LipoArguments(inputs, output), ok)
                                            EXCEPT !.folder = BuildDirectory(p)])
                   /\ environ' = AfterTool(environ)
                   /\ Goto(p, AfterBuild(p))
  /\ UNCHANGED <<script, heap, arguments, contexts>>

\* a package() that does not look at the status of gradlew
GradleFailed_Ignored(ret) == FALSE

\* `if ret != 0:` after os.system('./gradlew ...')
GradleFailed(ret) == ret # 0

\* the files of the Android project that go into the archive
ProjectFiles == [i \in 1..Len(ArchOrder) |-> SoFile(ArchOrder[i])] \o <<JarFile>>

\* AndroidBuildContext.package(): the .so of every architecture, then the
\* .jar of the first, are copied into the project; then gradlew; a non-zero
\* status of gradlew is exit(2); then the copy of the archive gradlew wrote
AndroidPackage ==
  /\ pc = At("android", "package", 0)
  /\ LET archs == Archs("android")
         begin == Append(log, Event("package", "android", "aar", <<>>, TRUE))
         pairs == [i \in 1..Len(archs) |-> <<SoSource(archs[i]), SoFile(archs[i])>>]
                    \o <<<<JarSource(archs[1]), JarFile>>>>
         gradlew(ret) == ToolEvent("gradlew", "android", <<Arg("assembleRelease", <<>>)>>, ret = 0)
     IN \E r \in Copies(fs, pairs), ret \in {0, 1}, written \in BOOLEAN :
          IF r.done < Len(archs)
            THEN /\ fs' = r.fs
                 /\ log' = begin
                 /\ Fail(1, "FileNotFoundError", <<"so">>)
                 /\ UNCHANGED environ
          ELSE IF r.done < Len(pairs)
            THEN /\ fs' = r.fs
                 /\ log' = begin
                 /\ Fail(1, "FileNotFoundError", <<"jar">>)
                 /\ UNCHANGED environ
          ELSE IF GradleFailed(ret)
            THEN /\ fs' = r.fs
                 /\ log' = Append(begin, gradlew(ret))
                 /\ Fail(2, "SystemExit", <<"gradlew">>)
                 /\ environ' = AfterProjectTool(environ)
          ELSE LET built == IF written
                              THEN Write(r.fs, ProjectAar, <<"gradlew">> \o Pack(r.fs, ProjectFiles))
                              ELSE r.fs
               IN /\ log' = Append(begin, gradlew(ret))
                  /\ environ' = AfterProjectTool(environ)
                  /\ IF Exists(built, ProjectAar)
                       THEN /\ fs' = Copy(built, ProjectAar, BuildAar)
                            /\ Goto("android", AfterPackage("android"))
                       ELSE fs' = built /\ Fail(1, "FileNotFoundError", <<"aar">>)
  /\ UNCHANGED <<script, heap, arguments, contexts>>

\* the lines of a text: the pieces between line feeds, each with its line
\* feed (the last may have none)
RECURSIVE Lines(_)
Lines(text) ==
  IF text = <<>> THEN <<>>
  ELSE LET k == IF \E i \in 1..Len(text) : text[i] = "\n"
                  THEN CHOOSE i \in 1..Len(text) : text[i] = "\n" /\ \A h \in 1..(i - 1) : text[h] # "\n"
                  ELSE Len(text)
       IN  <<SubSeq(text, 1, k)>> \o Lines(SubSeq(text, k + 1, Len(text)))

\* a replace that stops after the first occurrence
RECURSIVE Replace_FirstOnly(_, _, _)
Replace_FirstOnly(line, old, new) ==
  IF Len(line) < Len(old) THEN line
  ELSE IF SubSeq(line, 1, Len(old)) = old
    THEN new \o SubSeq(line, Len(old) + 1, Len(line))
  ELSE <<Head(line)>> \o Replace_FirstOnly(Tail(line), old, new)

\* str.replace(old, new): the occurrences of old from left to right, none
\* overlapping another
RECURSIVE Replace(_, _, _)
Replace(line, old, new) ==
  IF Len(line) < Len(old) THEN line
  ELSE IF SubSeq(line, 1, Len(old)) = old
    THEN new \o Replace(SubSeq(line, Len(old) + 1, Len(line)), old, new)
  ELSE <<Head(line)>> \o Replace(Tail(line), old, new)

\* open(..., 'rt'): a carriage return, with the line feed after it if there
\* is one, is read as a line feed
RECURSIVE ReadText(_)
ReadText(bytes) ==
  IF bytes = <<>> THEN <<>>
  ELSE IF Head(bytes) = "\r"
    THEN <<"\n">> \o ReadText(IF Len(bytes) > 1 /\ bytes[2] = "\n"
                                THEN SubSeq(bytes, 3, Len(bytes)) ELSE Tail(bytes))
  ELSE <<Head(bytes)>> \o ReadText(Tail(bytes))

\* open(..., 'wt'): a line feed is written as os.linesep
RECURSIVE WriteText(_, _)
WriteText(text, linesep) ==
  IF text = <<>> THEN <<>>
  ELSE (IF Head(text) = "\n" THEN linesep ELSE <<Head(text)>>) \o WriteText(Tail(text), linesep)

\* the loop of configure_nuspec: line by line, '{version}' replaced by the
\* version of the context
RECURSIVE ConfigureLines(_, _)
ConfigureLines(lines, version) ==
  IF lines = <<>> THEN <<>>
  ELSE Replace(Head(lines), Placeholder, version) \o ConfigureLines(Tail(lines), version)

\* what configure_nuspec writes for the bytes of a template
ConfigureNuspec(template, version, linesep) ==
  WriteText(ConfigureLines(Lines(ReadText(template)), version), linesep)

\* the files of the package layout that go into the nupkg
NupkgFiles ==
  <<Nuspec, NugetRef>>
    \o [i \in 1..Len(ArchOrder) |-> NugetRuntime(ArchOrder[i], "target.dll")]
    \o [i \in 1..Len(ArchOrder) |-> NugetRuntime(ArchOrder[i], "Ijwhost.dll")]

\* WindowsBuildContext.package(): the reference DLL of the first
\* architecture, then per architecture the DLL and Ijwhost.dll, the nuspec,
\* nuget pack (its status is dropped), then the copy of the nupkg
WindowsPackage ==
  /\ pc = At("windows", "package", 0)
  /\ LET archs == Archs("windows")
         begin == Append(log, Event("package", "windows", "nuget", <<>>, TRUE))
         each(a) == <<<<DllSource(a, "target.dll"), NugetRuntime(a, "target.dll")>>,
                      <<DllSource(a, "Ijwhost.dll"), NugetRuntime(a, "Ijwhost.dll")>>>>
         RECURSIVE all(_)
         all(as) == IF as = <<>> THEN <<>> ELSE each(Head(as)) \o all(Tail(as))
         pairs == <<<<DllSource(archs[1], "target.dll"), NugetRef>>>> \o all(archs)
     IN \E r \in Copies(fs, pairs), ok \in BOOLEAN :
          IF r.done < Len(pairs)
            THEN /\ fs' = r.fs
                 /\ log' = begin
                 /\ Fail(1, "FileNotFoundError", <<"dll">>)
                 /\ UNCHANGED environ
          ELSE \E g \in Looks(r.fs, NuspecTemplate) :
            IF ~Exists(g, NuspecTemplate)
              THEN /\ fs' = g
                   /\ log' = begin
                   /\ Fail(1, "FileNotFoundError", <<"template">>)
                   /\ UNCHANGED environ
            ELSE LET configured == Write(g, Nuspec, ConfigureNuspec(g[NuspecTemplate],
                                                                     environ.version, environ.linesep))
                     packed == IF ok THEN Write(configured, Nupkg, <<"nuget">> \o Pack(configured, NupkgFiles))
                                     ELSE configured
                 IN /\ log' = Append(begin, ToolEvent("nuget", "windows", <<Arg("pack", Nuspec)>>, ok))
                    /\ environ' = AfterProjectTool(environ)
                    /\ IF Exists(packed, Nupkg)
                         THEN /\ fs' = Copy(packed, Nupkg, BuildNupkg)
                              /\ Goto("windows", AfterPackage("windows"))
                         ELSE fs' = packed /\ Fail(1, "FileNotFoundError", <<"nupkg">>)
  /\ UNCHANGED <<script, heap, arguments, contexts>>

\* build_context_list of DarwinBuildContext.package
ContextList == <<"iphonesimulator", "iphoneos", "macos">>

\* the loop of _create_xcframework from context k on: for each way the file
\* system may answer, the -framework and -debug-symbols arguments (the legacy
\* script has no -debug-symbols)
RECURSIVE FrameworkArguments(_, _)
FrameworkArguments(f, k) ==
  IF k > Len(ContextList) THEN {[fs |-> f, args |-> <<>>]}
  ELSE LET p == ContextList[k] IN
       IF ~arguments.architectures[p].given THEN FrameworkArguments(f, k + 1)
       ELSE UNION {
              {[fs |-> r.fs,
                args |-> <<Arg("-framework", CombinedFramework(p))>>
                           \o (IF script = "package" /\ Exists(g, CombinedDsym(p))
                                 THEN <<Arg("-debug-symbols", CombinedDsym(p))>> ELSE <<>>)
                           \o r.args] : r \in FrameworkArguments(g, k + 1)} :
              g \in (IF script = "package" THEN Looks(f, CombinedDsym(p)) ELSE {f})}

\* what xcodebuild -create-xcframework writes for its arguments
XcodebuildOutput(args) ==
  LET RECURSIVE cat(_)
      cat(xs) == IF xs = <<>> THEN <<>>
                 ELSE <<Head(xs).flag>> \o Head(xs).path \o cat(Tail(xs))
  IN  <<"xcodebuild">> \o cat(args)

\* DarwinBuildContext.package(): the arguments are collected, the output
\* path is removed, then xcodebuild runs once; the status xcodebuild returns
\* is dropped
CreateXcframework ==
  /\ pc = At("darwin", "xcframework", 0)
  /\ \E r \in FrameworkArguments(fs, 1), ok \in BOOLEAN :
       LET args == <<Arg("-create-xcframework", <<>>), Arg("-output", Xcframework)>> \o r.args
           cleaned == Remove(r.fs, {Xcframework})
       IN /\ fs' = IF ok THEN Write(cleaned, Xcframework, XcodebuildOutput(r.args)) ELSE cleaned
          /\ log' = log \o <<Event("package", "darwin", "xcframework", <<>>, TRUE),
                             ToolEvent("xcodebuild", "darwin", args, ok)>>
          /\ environ' = AfterTool(environ)
          /\ Skip(AfterXcframework)
  /\ UNCHANGED <<script, heap, arguments, contexts>>

\* shutil.copytree of the Swift package template: the template and, if it
\* is there, the XCFramework in its bin folder
CopySwiftpackageDir(f) ==
  LET cleaned == Write(Remove(f, {BuildSwiftpackage, SwiftpackageXcframework}),
                       BuildSwiftpackage, <<"swiftpackage_dir">>)
  IN  IF Exists(f, SourceTreeXcframework)
        THEN Copy(cleaned, SourceTreeXcframework, SwiftpackageXcframework)
        ELSE cleaned

\* DarwinBuildContext.swiftpackage(): copies the package template and the
\* XCFramework; the legacy script copies the XCFramework into the template
\* first
Swiftpackage ==
  /\ pc = At("darwin", "swiftpackage", 0)
  /\ log' = Append(log, Event("package", "darwin", "swiftpackage", <<>>, TRUE))
  /\ IF script = "package"
       THEN IF ~Exists(fs, Xcframework)
              THEN /\ fs' = CopySwiftpackageDir(fs)
                   /\ Fail(1, "FileNotFoundError", <<"xcframework">>)
              ELSE /\ fs' = Copy(CopySwiftpackageDir(fs), Xcframework, SwiftpackageXcframework)
                   /\ Skip(Leave("xcframework"))
       ELSE IF ~Exists(fs, Xcframework)
              THEN /\ fs' = Remove(fs, {SourceTreeXcframework})
                   /\ Fail(1, "FileNotFoundError", <<"xcframework">>)
              ELSE /\ fs' = CopySwiftpackageDir(Copy(fs, Xcframework, SourceTreeXcframework))
                   /\ Skip(Leave("xcframework"))
  /\ UNCHANGED <<script, environ, heap, arguments, contexts>>

NonDarwin == Platforms \ DarwinPlatforms

Next ==
  \/ ParseArgs
  \/ \E p \in NonDarwin : EnterPlatform(p)
  \/ DarwinContexts
  \/ \E p \in DarwinPlatforms : EnterDarwin(p)
  \/ \E p \in Platforms : Install(p)
  \/ \E p \in Platforms : Build(p)
  \/ \E p \in DarwinPlatforms : LipoCombine(p)
  \/ \E p \in DarwinPlatforms : LipoCombineDsym(p)
  \/ AndroidPackage
  \/ WindowsPackage
  \/ \E p \in Platforms : ConanCreate(p)
  \/ \E p \in Platforms : Raise(p)
  \/ CreateXcframework
  \/ Swiftpackage

Spec == Init /\ [][Next]_vars

----------------------------------------------------------------------------
(* Direct calls of the methods, on a file system earlier runs have used *)

\* architectures in the list of a context that is called directly
MaxArchs == 2

\* calls of the same method one after the other
MaxCalls == 2

\* pieces a nuspec template is put together from
MaxPieces == 3

\* lists without repetition of lo to hi members of the set S
Lists(S, lo, hi) ==
  UNION {{l \in [1..k -> S] : Cardinality(Range(l)) = k} : k \in lo..hi}

\* what an earlier run left at path x
Stale(x) == <<"earlier run">> \o x

\* the file systems with some of the paths xs left by an earlier run
StaleStates(xs) == {[x \in S |-> Stale(x)] : S \in SUBSET xs}

\* the <group> element of a nuspec template, with its targetFramework
GroupTag == "<group targetFramework=\"net6.0\">"

Pieces ==
  {Placeholder, SubSeq(Placeholder, 1, 8), <<"}">>, <<"x">>, <<"\n">>, <<"\r", "\n">>, <<"\r">>,
   <<GroupTag>>}

\* the templates of at most n pieces
RECURSIVE Templates(_)
Templates(n) ==
  IF n = 0 THEN {<<>>}
  ELSE Templates(n - 1) \cup {t \o piece : t \in Templates(n - 1), piece \in Pieces}

Versions == {Version, <<"x">>}

Lineseps == {<<"\n">>, <<"\r", "\n">>}

\* the context of one platform, the other flags absent
OneContext(p, archs) ==
  Namespace([q \in Platforms |-> IF q = p THEN ListValue(archs) ELSE NoneValue],
            [given |-> TRUE, types |-> {}])

\* the three Darwin contexts main constructs, each with the value of its flag
DarwinValues ==
  [DarwinPlatforms -> {NoneValue} \cup {ListValue(l) : l \in Lists({"armv8", "x86_64"}, 0, MaxArchs)}]

DarwinNamespace(v) ==
  Namespace([q \in Platforms |-> IF q \in DarwinPlatforms THEN v[q] ELSE NoneValue],
            [given |-> TRUE, types |-> {}])

\* the strings handed to from_string
Strings ==
  {"x86_64", "x86", "armv8", "armv7", "ARMV8", "Armv8", "arm64-v8a", "win10-x64",
   "release", "debug", "Release", "RELEASE",
   "xcframework", "swiftpackage", "conan", "aar", "nuget", "XCFramework", "Conan", "AAR", ""}

ClassNames == {"Architecture", "BuildConfiguration", "PackageType"}

Class(c) ==
  CASE c = "Architecture"       -> Architecture
    [] c = "BuildConfiguration" -> BuildConfiguration
    [] c = "PackageType"        -> PackageType

\* The state before a direct call: the context is constructed, no step is
\* logged.  The package can construct the Darwin contexts only (CallBinds,
\* and the constructors of its Android and Windows contexts pass one argument
\* too many on to BuildContext), so package() of Android and Windows is
\* called in the legacy script.
CallsInit ==
  /\ log = <<>>
  /\ returned = {}
  /\ status = Running
  /\ \/ /\ script = "legacy"
        /\ environ \in [ANDROID_NDK_HOME : {TRUE}, version : {Version}, linesep : {<<"\n">>},
                         cwd : StartDirectories, imported : {ImportDirectory}]
        /\ \E archs \in Lists(DOMAIN Architecture, 1, MaxArchs) :
             arguments = OneContext("android", archs)
        /\ contexts = {"android"}
        /\ fs \in StaleStates({SoFile("x86"), JarFile, ProjectAar, BuildAar})
        /\ pc = At("android", "package", 0)
     \/ /\ script = "legacy"
        /\ environ \in [ANDROID_NDK_HOME : {TRUE}, version : Versions, linesep : Lineseps,
                         cwd : StartDirectories, imported : {ImportDirectory}]
        /\ \E archs \in Lists(DOMAIN Architecture, 1, MaxArchs) :
             arguments = OneContext("windows", archs)
        /\ contexts = {"windows"}
        /\ \E f \in StaleStates({Nupkg, BuildNupkg}), t \in {Template, <<GroupTag>> \o Template},
              others \in SUBSET {DllSource(Archs("windows")[1], "target.pdb")} :
             fs = [x \in others |-> Found(x)] @@ Write(f, NuspecTemplate, t)
        /\ pc = At("windows", "package", 0)
     \/ /\ script = "legacy"
        /\ environ \in [ANDROID_NDK_HOME : {TRUE}, version : Versions, linesep : Lineseps,
                         cwd : StartDirectories, imported : {ImportDirectory}]
        /\ arguments = OneContext("windows", <<"x86_64">>)
        /\ contexts = {"windows"}
        /\ \E t \in Templates(MaxPieces) : fs = Write(<<>>, NuspecTemplate, t)
        /\ pc = At("windows", "configure_nuspec", 0)
     \/ /\ script \in {"package", "legacy"}
        /\ environ \in [ANDROID_NDK_HOME : {TRUE}, version : {Version}, linesep : {<<"\n">>},
                         cwd : StartDirectories, imported : {ImportDirectory}]
        /\ \E p \in DarwinPlatforms : \E archs \in Lists(Choices(p), 2, MaxArchs) :
             /\ arguments = OneContext(p, archs)
             /\ fs \in StaleStates({CombinedFramework(p), CombinedDsym(p)})
             /\ pc = At(p, "lipo", 0)
        /\ contexts = DarwinPlatforms
     \/ /\ script \in {"package", "legacy"}
        /\ environ \in [ANDROID_NDK_HOME : {TRUE}, version : {Version}, linesep : {<<"\n">>},
                         cwd : StartDirectories, imported : {ImportDirectory}]
        /\ \E p \in DarwinPlatforms : \E archs \in Lists(Choices(p), 0, MaxArchs) :
             /\ arguments = OneContext(p, archs)
             /\ fs \in StaleStates({Framework(p, Join(archs)), Dsym(p, Join(archs))} \ BuildOutputs)
             /\ pc = IF archs = <<>> THEN At("main", "done", 0) ELSE At(p, "build", 1)
        /\ contexts = DarwinPlatforms
     \/ /\ script \in {"package", "legacy"}
        /\ environ \in [ANDROID_NDK_HOME : {TRUE}, version : {Version}, linesep : {<<"\n">>},
                         cwd : StartDirectories, imported : {ImportDirectory}]
        /\ \E v \in DarwinValues :
             /\ arguments = DarwinNamespace(v)
             /\ fs \in StaleStates({Xcframework}
                                    \cup {CombinedDsym(p) : p \in {q \in DarwinPlatforms :
                                                                   v[q].given /\ Len(v[q].archs) # 1}})
        /\ contexts = DarwinPlatforms
        /\ pc = At("darwin", "xcframework", 0)
     \/ /\ script \in {"package", "legacy"}
        /\ environ \in [ANDROID_NDK_HOME : {TRUE}, version : {Version}, linesep : {<<"\n">>},
                         cwd : StartDirectories, imported : {ImportDirectory}]
        /\ arguments = DarwinNamespace([q \in DarwinPlatforms |-> NoneValue])
        /\ contexts = DarwinPlatforms
        /\ fs \in StaleStates({Xcframework, SourceTreeXcframework, SwiftpackageXcframework,
                               BuildSwiftpackage})
        /\ pc = At("darwin", "swiftpackage", 0)
     \/ /\ script \in {"package", "legacy"}
        /\ environ \in [ANDROID_NDK_HOME : {TRUE}, version : {Version}, linesep : {<<"\n">>},
                         cwd : StartDirectories, imported : {ImportDirectory}]
        /\ arguments = Namespace([q \in Platforms |-> IF q = "macos" THEN ListValue(<<"armv8">>)
                                                                    ELSE NoneValue],
                                 [given |-> TRUE, types |-> {"xcframework", "swiftpackage"}])
        /\ contexts = DarwinPlatforms
        /\ fs \in StaleStates({Xcframework, SourceTreeXcframework, SwiftpackageXcframework})
        /\ pc = At("darwin", "xcframework", 0)
     \/ /\ script \in {"package", "legacy"}
        /\ environ \in [ANDROID_NDK_HOME : {TRUE}, version : {Version}, linesep : {<<"\n">>},
                         cwd : StartDirectories, imported : {ImportDirectory}]
        /\ arguments = EmptyNamespace
        /\ contexts = {}
        /\ fs = <<>>
        /\ pc = At("enum", "from_string", 0)
  /\ heap = ConstructAll(InitialHeap, contexts)

\* a direct call of configure_nuspec
ConfigureNuspecCall ==
  /\ pc = At("windows", "configure_nuspec", 0)
  /\ \E g \in Looks(fs, NuspecTemplate) :
       IF ~Exists(g, NuspecTemplate)
         THEN fs' = g /\ Fail(1, "FileNotFoundError", <<"template">>)
         ELSE /\ fs' = Write(g, Nuspec, ConfigureNuspec(g[NuspecTemplate],
                                                        environ.version, environ.linesep))
              /\ Skip(At("main", "done", 0))
  /\ UNCHANGED <<script, environ, heap, arguments, contexts, log>>

\* from_string of a string, or of what str made of a member
FromString ==
  /\ pc.plat = "enum" /\ pc.phase = "from_string"
  /\ \E c \in ClassNames, string \in Strings :
       LET r == from_string(Class(c), string) IN
       /\ pc.i = 1 => (c = log[Len(log)].plat /\ string = log[Len(log)].arch)
       /\ log' = Append(log, [Event("from_string", c, string, <<>>, r.raised = "")
                                EXCEPT !.args = IF r.raised = "" THEN <<r.member>> ELSE <<>>])
       /\ IF r.raised # "" THEN Fail(1, "ValueError", <<string>>)
          ELSE IF pc.i = 0 THEN Skip(At("enum", "str", 0))
          ELSE Skip(At("main", "done", 0))
  /\ UNCHANGED <<script, environ, heap, arguments, contexts, fs>>

\* str of the member from_string returned
StrCall ==
  /\ pc = At("enum", "str", 0)
  /\ LET e == log[Len(log)] IN
     log' = Append(log, [Event("str", e.plat, Str(e.args[1]), <<>>, TRUE) EXCEPT !.args = e.args])
  /\ Skip(At("enum", "from_string", 1))
  /\ UNCHANGED <<script, environ, heap, arguments, contexts, fs>>

\* where the first call of the behaviour entered
CalledAt ==
  LET e == log[1] IN
  IF e.op = "package"
    THEN At(e.plat, IF e.plat = "darwin" THEN e.arch ELSE "package", 0)
    ELSE At(e.plat, "lipo", 0)

\* the call returned: control is back in main, past the block of the call
Returned == pc \in {At("main", "done", 0), At("darwin", "contexts", 0)}

\* the caller makes the same call once more
Again ==
  /\ Returned
  /\ log # <<>>
  /\ log[1].op \in {"package", "lipo"}
  /\ Cardinality({i \in 1..Len(log) : log[i].op = log[1].op /\ log[i].arch = log[1].arch})
       < MaxCalls
  /\ pc' = CalledAt
  /\ status' = Running
  /\ UNCHANGED <<script, environ, heap, arguments, contexts, log, returned, fs>>

CallsNext ==
  \/ \E p \in DarwinPlatforms : Build(p)
  \/ AndroidPackage
  \/ WindowsPackage
  \/ ConfigureNuspecCall
  \/ \E p \in DarwinPlatforms : LipoCombine(p)
  \/ \E p \in DarwinPlatforms : LipoCombineDsym(p)
  \/ CreateXcframework
  \/ Swiftpackage
  \/ FromString
  \/ StrCall
  \/ Again

Calls == CallsInit /\ [][CallsNext]_vars

----------------------------------------------------------------------------
(* Reading the log *)

Terminated == pc.phase \in {"done", "exit"}

\* a step of a platform: every event but the version lookup of a constructor
IsStep(e) == e.op # "inspect"

\* the place of a platform in the order Android, macOS, iPhoneSimulator,
\* iPhoneOS, Windows, Linux; the XCFramework and Swift package steps are
\* logged for "darwin" and stand between iPhoneOS and Windows
Rank(plat) ==
  CASE plat = "android"         -> 1
    [] plat = "macos"           -> 2
    [] plat = "iphonesimulator" -> 3
    [] plat = "iphoneos"        -> 4
    [] plat = "darwin"          -> 5
    [] plat = "windows"         -> 6
    [] plat = "linux"           -> 7

\* the architectures of the op events of platform p among the first j - 1
\* events, in the order of the log
OpArchs(p, op, j) ==
  LET s == SelectSeq(SubSeq(log, 1, j - 1), LAMBDA e : e.plat = p /\ e.op = op)
  IN  [i \in 1..Len(s) |-> s[i].arch]

TypesGiven == arguments.package_types.types

\* every step the run owes platform p has been invoked before event j
Finished(p, j) ==
  /\ OpArchs(p, "install", j) = Archs(p)
  /\ OpArchs(p, "build", j) = Archs(p)
  /\ "conan" \in TypesGiven => OpArchs(p, "create", j) = Archs(p)
  /\ (PackageTypeOf(p) # "" /\ PackageTypeOf(p) \in TypesGiven)
       => OpArchs(p, "package", j) = <<PackageTypeOf(p)>>

\* install 1, build (with the lipo merge) 2, packaging 3, conan create 4
Phase(op) ==
  CASE op = "install"                                      -> 1
    [] op \in {"build", "lipo", "lipo_dsym"}               -> 2
    [] op \in {"package", "gradlew", "nuget", "xcodebuild"} -> 3
    [] op = "create"                                       -> 4

\* the steps logged for one platform never go back to an earlier phase
Monotone ==
  \A j \in 1..Len(log) : \A i \in 1..(j - 1) :
    (log[i].plat = log[j].plat /\ IsStep(log[i]) /\ IsStep(log[j]))
      => Phase(log[i].op) <= Phase(log[j].op)

\* a build of a platform comes after all its installs, in list order; its
\* packaging and conan creates come after all its builds, in list order; its
\* conan creates come after its own packaging step, if that was selected
Complete ==
  \A j \in 1..Len(log) :
    LET p == log[j].plat IN
    (p \in Platforms /\ IsStep(log[j])) =>
      /\ Phase(log[j].op) >= 2 => OpArchs(p, "install", j) = Archs(p)
      /\ Phase(log[j].op) >= 3 => OpArchs(p, "build", j) = Archs(p)
      /\ (log[j].op = "create" /\ PackageTypeOf(p) \in TypesGiven)
           => OpArchs(p, "package", j) = <<PackageTypeOf(p)>>

\* the positions of the conan creates of the Darwin variants and of the
\* XCFramework assembly
DarwinCreates ==
  {i \in 1..Len(log) : log[i].plat \in DarwinPlatforms /\ log[i].op = "create"}

Assemblies == {i \in 1..Len(log) : log[i].op = "xcodebuild"}

----------------------------------------------------------------------------
(* The order of the steps *)

\* C1: the steps of the run follow the platform order Android, macOS,
\* iPhoneSimulator, iPhoneOS, Windows, Linux: a step is never followed by a
\* step of an earlier platform, every step owed to an earlier requested
\* platform has been invoked before it, and the XCFramework assembly stands
\* after the three Darwin variants and before Windows and Linux.
C1_PlatformOrder ==
  \A j \in 1..Len(log) :
    IsStep(log[j]) =>
      /\ \A i \in 1..(j - 1) : IsStep(log[i]) => Rank(log[i].plat) <= Rank(log[j].plat)
      /\ \A p \in Platforms :
           (Requested(p, arguments) /\ Rank(p) < Rank(log[j].plat)) => Finished(p, j)

\* a run that built macOS, assembled the XCFramework and went on to Linux
C1_Witness ==
  \E i, j, k \in 1..Len(log) :
    /\ i < j /\ j < k
    /\ log[i].plat = "macos" /\ log[i].op = "build"
    /\ log[j].op = "xcodebuild"
    /\ log[k].plat = "linux" /\ log[k].op = "install"

\* C2 as stated: in every requested platform install, build, packaging and
\* conan create follow each other in that order, all n installs before the
\* first build and all n builds before the packaging, and the packaging step
\* of the platform (for a Darwin variant the XCFramework assembly) precedes
\* every conan create of that platform.
C2_PackagingBeforeCreate ==
  /\ Monotone
  /\ Complete
  /\ \A i \in DarwinCreates, j \in Assemblies : j < i

\* C2: in every requested platform install, build, the platform's own
\* packaging step (AAR, NuGet) and conan create follow each other in that
\* order, all n installs in list order before the first build and all n
\* builds before the packaging; the XCFramework assembly comes after the
\* conan creates of every Darwin variant.
C2_StepOrder ==
  /\ Monotone
  /\ Complete
  /\ \A i \in DarwinCreates, j \in Assemblies : i < j

\* a Darwin variant whose conan create and XCFramework assembly both ran
C2_Witness ==
  \E p \in DarwinPlatforms :
    /\ OpArchs(p, "install", Len(log) + 1) = Archs(p)
    /\ OpArchs(p, "build", Len(log) + 1) = Archs(p)
    /\ \E i \in DarwinCreates : log[i].plat = p
    /\ Assemblies # {}

\* C3: build() of a context with architectures a1..an makes n conan build
\* calls, the i-th for ai into build_directory/ai, none repeated after a
\* success and none after a failure; with n = 0 it calls no tool.
C3_BuildPerArchitecture ==
  \A p \in Platforms :
    LET b == SelectSeq(log, LAMBDA e : e.plat = p /\ e.op = "build")
        n == Len(Archs(p))
    IN  /\ Len(b) <= n
        /\ \A i \in 1..Len(b) :
             /\ b[i].arch = Archs(p)[i]
             /\ b[i].folder = Append(BuildDirectory(p), b[i].arch)
             /\ i < Len(b) => b[i].ok
        /\ <<p, "build">> \in returned =>
             /\ Len(b) = n
             /\ n = 0 => \A i \in 1..Len(log) : log[i].plat = p => ~IsStep(log[i])

\* build() returned for a list of two architectures that is not sorted
C3_Witness ==
  \E p \in Platforms :
    /\ <<p, "build">> \in returned
    /\ Archs(p) = <<"x86_64", "armv8">>
    /\ OpArchs(p, "build", Len(log) + 1) = <<"x86_64", "armv8">>

\* no tool has failed: every call logged succeeded and no file a tool should
\* have written was missing
ToolsSucceeded ==
  /\ \A i \in 1..Len(log) : log[i].ok
  /\ status.error \notin {"ConanException", "FileNotFoundError", "SystemExit"}

\* C4 as stated: a run of the package whose tools all succeed constructs the
\* context of every platform requested with a non-empty list and installs
\* and builds each of its architectures.
C4_ContextsBuilt ==
  (script = "package" /\ Terminated /\ status.error # "argparse" /\ ToolsSucceeded) =>
    \A p \in Platforms :
      Truthy(arguments.architectures[p]) =>
        /\ p \in contexts
        /\ OpArchs(p, "install", Len(log) + 1) = Archs(p)
        /\ OpArchs(p, "build", Len(log) + 1) = Archs(p)

\* C5: the package runs xcodebuild only when xcframework is among the
\* package types and one of --macos, --iphonesimulator, --iphoneos was given.
C5_XcframeworkGated ==
  script = "package" =>
    \A i \in 1..Len(log) :
      log[i].op = "xcodebuild" =>
        /\ "xcframework" \in TypesGiven
        /\ \E p \in DarwinPlatforms : arguments.architectures[p].given

\* the package ran xcodebuild
C5_Witness ==
  /\ script = "package"
  /\ \E i \in 1..Len(log) : log[i].op = "xcodebuild"

----------------------------------------------------------------------------
(* Packaging *)

\* the package type a logged step belongs to ("" for install, build, merge)
TypeOfStep(e) ==
  CASE e.op = "create"     -> "conan"
    [] e.op = "package"    -> e.arch
    [] e.op = "gradlew"    -> "aar"
    [] e.op = "nuget"      -> "nuget"
    [] e.op = "xcodebuild" -> "xcframework"
    [] OTHER               -> ""

\* the platform of a logged step was asked for on the command line
PlatformRequested(e) ==
  IF e.plat = "darwin" THEN \E p \in DarwinPlatforms : arguments.architectures[p].given
                       ELSE Truthy(arguments.architectures[e.plat])

NoPlatformGiven == \A p \in Platforms : ~arguments.architectures[p].given

\* The legacy script is left out of C6: its Windows and Linux blocks test
\* the package types without the truthiness guard (Raise), and its XCFramework
\* gate does not look at the Darwin flags.
\*
\* C6: in the package every packaging step (AAR, NuGet, XCFramework, Swift
\* package, conan create) runs only with its type among the --package values
\* and its platform requested; no package-type test raises, whether
\* --package is absent or names types of platforms not requested; a run with
\* package types but no platform, whose version lookups succeed, ends with
\* status 0 and without a step.
C6_PackagingGated ==
  script = "package" =>
    /\ \A i \in 1..Len(log) :
         TypeOfStep(log[i]) # "" =>
           /\ arguments.package_types.given
           /\ TypeOfStep(log[i]) \in TypesGiven
           /\ PlatformRequested(log[i])
    /\ status.detail # <<"NoneType">>
    /\ (Terminated /\ status.error # "argparse" /\ NoPlatformGiven /\ ToolsSucceeded)
         => (status.code = 0 /\ \A i \in 1..Len(log) : ~IsStep(log[i]))

\* the package created the conan packages of Linux and ended with status 0
\* although aar was selected and Android not requested
C6_Witness ==
  /\ script = "package"
  /\ status.code = 0
  /\ "aar" \in TypesGiven
  /\ ~arguments.architectures["android"].given
  /\ \E i \in 1..Len(log) : log[i].op = "create" /\ log[i].plat = "linux"

\* Only the legacy script gets as far as AndroidBuildContext.package(): the
\* package ends at the construction of the Android context (CallBinds).  The
\* two package() methods make the same calls in the same order.
\*
\* C7: a gradlew call that returned non-zero is the last step of the run:
\* the process exits with status 2, the archive is not in the build folder,
\* and the libraries and the jar copied into the Android project are still
\* there.
C7_GradleFatal ==
  \A i \in 1..Len(log) :
    (log[i].op = "gradlew" /\ ~log[i].ok) =>
      /\ i = Len(log)
      /\ Terminated
      /\ status.code = 2
      /\ ~Exists(fs, BuildAar)
      /\ Exists(fs, JarFile)
      /\ \A k \in 1..Len(Archs("android")) : Exists(fs, SoFile(Archs("android")[k]))

\* gradlew returned non-zero after the copies for two architectures
C7_Witness ==
  /\ Len(Archs("android")) = 2
  /\ \E i \in 1..Len(log) : log[i].op = "gradlew" /\ ~log[i].ok

\* C8 as stated: a lipo, xcodebuild or nuget call that returned non-zero is
\* the last step of the run, and the run does not exit with status 0.
C8_ToolFailurePropagates ==
  \A i \in 1..Len(log) :
    (log[i].op \in {"lipo", "lipo_dsym", "xcodebuild", "nuget"} /\ ~log[i].ok) =>
      /\ i = Len(log)
      /\ status.code # 0

----------------------------------------------------------------------------
(* Validation *)

\* the architectures each platform flag is documented to take
AllowedArchitectures(p) ==
  CASE p \in {"macos", "iphonesimulator"} -> {"armv8", "x86_64"}
    [] p = "iphoneos"                     -> {"armv8", "armv7"}
    [] OTHER                              -> {"x86_64", "x86", "armv8", "armv7"}

\* C9: the architectures parse_args hands to main are within the allowed
\* subset of their platform, so is every architecture installed or built,
\* and a rejection by the parser ends the run non-zero before any tool was
\* called or any context constructed.
C9_TokensValidated ==
  /\ \A p \in Platforms : Range(Archs(p)) \subseteq AllowedArchitectures(p)
  /\ \A i \in 1..Len(log) :
       log[i].op \in {"install", "build"} => log[i].arch \in AllowedArchitectures(log[i].plat)
  /\ status.error = "argparse" =>
       /\ status.code > 0
       /\ log = <<>>
       /\ contexts = {}

\* x86_64, a member of the registry, was rejected after --iphoneos
C9_Witness ==
  /\ status.error = "argparse"
  /\ status.detail = <<"iphoneos", "x86_64">>

\* C10 as stated: once a run with Android requested and ANDROID_NDK_HOME
\* unset is past the start of the Android block, it has ended with the
\* missing-parameter usage error, non-zero, and without a step.
C10_NdkValidated ==
  (/\ Truthy(arguments.architectures["android"])
   /\ ~environ.ANDROID_NDK_HOME
   /\ pc # At("android", "enter", 0))
    => /\ status.error = "missing_parameter"
       /\ status.code > 0
       /\ \A i \in 1..Len(log) : ~IsStep(log[i])

----------------------------------------------------------------------------
(* Empty architecture lists *)

\* install() or build() of the context of p has been invoked
Invoked(p) ==
  \/ <<p, "install">> \in returned
  \/ <<p, "build">> \in returned
  \/ pc.plat = p /\ pc.phase \in {"install", "build"}

\* C11 as stated: whenever the package has invoked install() or build() on
\* the context of a platform, the architecture list of that context is not
\* empty.
C11_NonEmptyWhenInvoked ==
  script = "package" =>
    \A p \in Platforms : Invoked(p) => Archs(p) # <<>>

\* the arguments of a logged tool call that carry the flag
ArgsOf(e, flag) == SelectSeq(e.args, LAMBDA a : a.flag = flag)

\* C12 as stated: a context with an empty architecture list contributes
\* nothing to a packaging step of the package: the AAR and NuGet steps and
\* the conan creates run for non-empty lists only, and every -framework
\* argument of the XCFramework assembly is the framework of a Darwin variant
\* whose list is not empty.
C12_EmptyContextSkipped ==
  script = "package" =>
    \A i \in 1..Len(log) :
      /\ (log[i].op \in {"create", "package", "gradlew", "nuget"} /\ log[i].plat \in Platforms)
           => Archs(log[i].plat) # <<>>
      /\ LET frameworks == ArgsOf(log[i], "-framework") IN
         \A k \in 1..Len(frameworks) :
           \E p \in DarwinPlatforms :
             Archs(p) # <<>> /\ frameworks[k].path = CombinedFramework(p)

\* the Darwin variants whose context has a non-empty architecture selection
Selecting == {p \in DarwinPlatforms : Archs(p) # <<>>}

\* the positions of the arguments of a call that carry the flag and the path
Carrying(e, flag, path) ==
  {k \in 1..Len(e.args) : e.args[k].flag = flag /\ e.args[k].path = path}

\* C13 as stated: each XCFramework packaging call of the package invokes
\* xcodebuild exactly once, with exactly one -framework argument for each
\* context whose architecture selection is not empty and none for the
\* others, and exactly one -debug-symbols argument for each such context
\* whose combined output has a dSYM bundle and none for the others.
C13_FrameworkPerContext ==
  script = "package" =>
    /\ Len(SelectSeq(log, LAMBDA e : e.op = "xcodebuild"))
         = Len(SelectSeq(log, LAMBDA e : e.op = "package" /\ e.arch = "xcframework"))
    /\ \A i \in 1..Len(log) :
         log[i].op = "xcodebuild" =>
           /\ Len(ArgsOf(log[i], "-framework")) = Cardinality(Selecting)
           /\ \A p \in Selecting :
                Cardinality(Carrying(log[i], "-framework", CombinedFramework(p))) = 1
           /\ Len(ArgsOf(log[i], "-debug-symbols"))
                = Cardinality({p \in Selecting : Exists(fs, CombinedDsym(p))})
           /\ \A p \in Selecting :
                Exists(fs, CombinedDsym(p)) =>
                  Cardinality(Carrying(log[i], "-debug-symbols", CombinedDsym(p))) = 1

----------------------------------------------------------------------------
(* The arguments of the tools and the files of the packaging steps *)

EndsWith(path, suffix) ==
  /\ Len(path) >= Len(suffix)
  /\ SubSeq(path, Len(path) - Len(suffix) + 1, Len(path)) = suffix

\* C14: the lipo call that merges the frameworks of a1..an, n > 1, has
\* exactly n input paths, the first n arguments, the i-th inside the build
\* folder of ai, and exactly one -output path; the inputs and the output end
\* in target.framework/Versions/A/target for the sdk macosx and in
\* target.framework/target for iphoneos and iphonesimulator; the output lies
\* inside the bundle that was copied from the build folder of a1.
C14_LipoArguments ==
  \A i \in 1..Len(log) :
    log[i].op = "lipo" =>
      LET p       == log[i].plat
          archs   == Archs(p)
          inputs  == ArgsOf(log[i], "")
          outputs == ArgsOf(log[i], "-output")
          inner   == IF Sdk(p) = "macosx" THEN <<"Versions", "A", "target">> ELSE <<"target">>
          suffix  == <<"target.framework">> \o inner
          folder(a) == <<"build">> \o BuildDirectory(p) \o <<a>>
          bundle(path) == SubSeq(path, 1, Len(path) - Len(inner))
      IN  /\ Len(archs) > 1
          /\ Len(inputs) = Len(archs)
          /\ Len(outputs) = 1
          /\ \A k \in 1..Len(archs) :
               /\ log[i].args[k] = inputs[k]
               /\ EndsWith(inputs[k].path, suffix)
               /\ SubSeq(inputs[k].path, 1, Len(folder(archs[k]))) = folder(archs[k])
          /\ EndsWith(outputs[1].path, suffix)
          /\ \A k \in 1..Len(archs) : outputs[1].path # inputs[k].path
          /\ Exists(fs, bundle(outputs[1].path))
          /\ fs[bundle(outputs[1].path)] = <<"conan build">> \o bundle(inputs[1].path)

\* the frameworks of x86_64 and armv8, in this order, were merged for macOS
C14_Witness ==
  \E i \in 1..Len(log) :
    /\ log[i].op = "lipo"
    /\ log[i].plat = "macos"
    /\ Archs("macos") = <<"x86_64", "armv8">>
    /\ Exists(fs, Binary("macos", CombinedFramework("macos")))

\* the Android ABI names, as Android names them
AndroidAbi(a) ==
  CASE a = "x86_64" -> "x86_64"
    [] a = "x86"    -> "x86"
    [] a = "armv8"  -> "arm64-v8a"
    [] a = "armv7"  -> "armeabi-v7a"

\* C15: when package() of the Android context invokes gradlew, the
\* lib<target>.so of every architecture of the list has been copied from the
\* build folder of that architecture into the jniLibs folder of its Android
\* ABI, two architectures never into the same folder, and the one
\* <target>.jar in the libs folder of the module is the jar of the first
\* architecture.
C15_AndroidCopies ==
  \A i \in 1..Len(log) :
    log[i].op = "gradlew" =>
      LET archs == Archs("android")
          jniLibs(abi) == <<"android_project", "module", "src", "main", "jniLibs", abi, "libtarget.so">>
          folder(a) == <<"build">> \o ArchFolder("android", a) \o <<"android_target_dir">>
      IN  /\ \A k \in 1..Len(archs) :
               /\ Exists(fs, jniLibs(AndroidAbi(archs[k])))
               /\ fs[jniLibs(AndroidAbi(archs[k]))]
                    = <<"conan build">> \o folder(archs[k]) \o <<"libtarget.so">>
          /\ \A h, k \in 1..Len(archs) : h # k => AndroidAbi(archs[h]) # AndroidAbi(archs[k])
          /\ Exists(fs, <<"android_project", "module", "libs", "target.jar">>)
          /\ fs[<<"android_project", "module", "libs", "target.jar">>]
               = <<"conan build">> \o folder(archs[1]) \o <<"target.jar">>
          /\ Cardinality({x \in DOMAIN fs : x[Len(x)] = "target.jar" /\ x[1] = "android_project"}) = 1

\* gradlew was invoked for the list armv8, x86_64 over a project that held
\* the files of an earlier run
C15_Witness ==
  /\ Archs("android") = <<"armv8", "x86_64">>
  /\ \E i \in 1..Len(log) : log[i].op = "gradlew"
  /\ \E x \in DOMAIN fs : fs[x] = Stale(x)

\* the Windows runtime identifiers
Rid(a) ==
  CASE a = "x86_64" -> "win10-x64"
    [] a = "x86"    -> "win10-x86"
    [] a = "armv8"  -> "win10-arm64"
    [] a = "armv7"  -> "win10-arm"

\* the folder the Windows build of architecture a writes into
WindowsOutput(a) ==
  <<"build">> \o ArchFolder("windows", a) \o <<"windows_target_dir", "configuration">>

\* the first architecture's <target>.dll is in the reference slot
ReferenceCopied ==
  LET slot == <<"nupkg_dir", "lib", NetVersion, "target.dll">> IN
  /\ Exists(fs, slot)
  /\ fs[slot] = <<"conan build">> \o WindowsOutput(Archs("windows")[1]) \o <<"target.dll">>

\* the file of that name of architecture a is in the subtree of a's runtime
\* identifier
RuntimeCopied(a, name) ==
  LET slot == <<"nupkg_dir", "runtimes", Rid(a), "lib", NetVersion, name>> IN
  /\ Exists(fs, slot)
  /\ fs[slot] = <<"conan build">> \o WindowsOutput(a) \o <<name>>

----------------------------------------------------------------------------
(* The nuspec *)

\* the positions of the template where '{version}' starts
Occurrences(t) ==
  {i \in 1..Len(t) : i + 8 <= Len(t) /\ SubSeq(t, i, i + 8) = <<"{", "v", "e", "r", "s", "i", "o", "n", "}">>}

\* what position i of the template becomes: the version where the
\* placeholder starts, nothing for the rest of the placeholder, the character
\* itself otherwise; with endings, a line ending (line feed, carriage return,
\* or the two together) becomes the line separator
Becomes(t, i, version, linesep, endings) ==
  IF i \in Occurrences(t) THEN version
  ELSE IF \E j \in Occurrences(t) : j < i /\ i <= j + 8 THEN <<>>
  ELSE IF ~endings THEN <<t[i]>>
  ELSE IF t[i] = "\r" THEN linesep
  ELSE IF t[i] = "\n" THEN (IF i > 1 /\ t[i - 1] = "\r" THEN <<>> ELSE linesep)
  ELSE <<t[i]>>

RECURSIVE Substituted(_, _, _, _, _)
Substituted(t, i, version, linesep, endings) ==
  IF i > Len(t) THEN <<>>
  ELSE Becomes(t, i, version, linesep, endings) \o Substituted(t, i + 1, version, linesep, endings)

\* a call of configure_nuspec that returns
Configures ==
  /\ pc = At("windows", "configure_nuspec", 0)
  /\ pc' = At("main", "done", 0)

\* C17 as stated: configure_nuspec writes to the file named like the
\* template without .template the template with every '{version}' replaced by
\* the version and every other character unchanged, and leaves the template
\* as it was.
C17_ExactCopy ==
  [][Configures =>
       /\ Exists(fs', Nuspec)
       /\ fs'[Nuspec] = Substituted(fs[NuspecTemplate], 1, environ.version, environ.linesep, FALSE)
       /\ fs'[NuspecTemplate] = fs[NuspecTemplate]]_vars

\* C17: configure_nuspec writes to the file named like the template without
\* .template the template with every '{version}' replaced by the version and
\* every line ending (line feed, carriage return, or the two together)
\* written as the line separator of the host, every other character
\* unchanged, and leaves the template as it was.
C17_CopyUpToLineEndings ==
  [][Configures =>
       /\ Exists(fs', Nuspec)
       /\ fs'[Nuspec] = Substituted(fs[NuspecTemplate], 1, environ.version, environ.linesep, TRUE)
       /\ fs'[NuspecTemplate] = fs[NuspecTemplate]]_vars

\* configure_nuspec returned for a template with two placeholders on one
\* line, and for one with a carriage return
C17_Witness ==
  /\ pc = At("main", "done", 0)
  /\ Exists(fs, Nuspec)
  /\ fs[NuspecTemplate] = Placeholder \o Placeholder \o <<"\r", "\n">>
  /\ fs[Nuspec] = environ.version \o environ.version \o environ.linesep

----------------------------------------------------------------------------
(* Calling package() again *)

\* the archive in the Android project is the one gradlew makes of the files
\* that are in the project now
ArchiveBuilt(f) ==
  /\ Exists(f, ProjectAar)
  /\ f[ProjectAar] = <<"gradlew">> \o Pack(f, ProjectFiles)

\* package() of the Android context is called again and returns
PackagesAgain ==
  /\ pc = At("android", "package", 0)
  /\ \E i \in 1..Len(log) : log[i].op = "gradlew" /\ log[i].ok
  /\ Returned'

\* C18: a second package() of the Android context on the same inputs, where
\* gradlew built the archive of the project both times, leaves in the build
\* folder an .aar with the content the first call left there.
C18_PackageIdempotent ==
  [][(/\ PackagesAgain
      /\ ArchiveBuilt(fs) /\ Exists(fs, BuildAar) /\ fs[BuildAar] = fs[ProjectAar]
      /\ ArchiveBuilt(fs'))
       => (Exists(fs', BuildAar) /\ fs'[BuildAar] = fs[BuildAar])]_vars

\* package() returned twice for two architectures, over an .aar an earlier
\* run had left in the build folder
C18_Witness ==
  /\ Returned
  /\ Len(Archs("android")) = 2
  /\ Len(SelectSeq(log, LAMBDA e : e.op = "gradlew" /\ e.ok)) = 2
  /\ ArchiveBuilt(fs)
  /\ fs[BuildAar] = fs[ProjectAar]

----------------------------------------------------------------------------
(* The enum round trip *)

\* the names the classes declare, as the command line writes them
DeclaredNames(c) ==
  CASE c = "Architecture"       -> {"x86_64", "x86", "armv8", "armv7"}
    [] c = "BuildConfiguration" -> {"release", "debug"}
    [] c = "PackageType"        -> {"xcframework", "swiftpackage", "conan", "aar", "nuget"}

\* C19: from_string accepts exactly the declared member names, letter for
\* letter, and raises for every other string; str of the member it returns
\* is the name it was given, and from_string of that str is the same member.
C19_RoundTrip ==
  \A i \in 1..Len(log) :
    LET e == log[i] IN
    /\ e.op = "from_string" =>
         /\ e.ok <=> e.arch \in DeclaredNames(e.plat)
         /\ e.ok => /\ Len(e.args) = 1
                    /\ e.args[1] \in Members(Class(e.plat))
                    /\ e.args[1].name = e.arch
         /\ ~e.ok => e.args = <<>> /\ status.error = "ValueError"
    /\ (e.op = "str" /\ i > 1) =>
         /\ log[i - 1].op = "from_string" /\ log[i - 1].ok
         /\ e.arch = log[i - 1].arch
    /\ (e.op = "from_string" /\ i > 1) =>
         /\ log[i - 1].op = "str"
         /\ e.ok
         /\ e.args = log[i - 1].args

\* "armv8" went through from_string, str and from_string again
C19_Witness ==
  /\ Len(log) = 3
  /\ log[1].op = "from_string" /\ log[1].plat = "Architecture" /\ log[1].arch = "armv8"
  /\ log[2].op = "str" /\ log[2].arch = "armv8"
  /\ log[3].op = "from_string" /\ log[3].ok

\* "ARMV8" was handed to from_string of Architecture, which raised
C19_RejectedWitness ==
  /\ Len(log) = 1
  /\ log[1].op = "from_string" /\ log[1].plat = "Architecture" /\ log[1].arch = "ARMV8"
  /\ ~log[1].ok

----------------------------------------------------------------------------
(* The target framework of the NuGet layout *)

\* the files package() of the Windows context put under the lib folders of
\* the NuGet template
LibPaths ==
  {x \in DOMAIN fs : /\ Exists(fs, x)
                     /\ x[1] = "nupkg_dir"
                     /\ \E k \in 1..Len(x) : x[k] = "lib"
                     /\ fs[x][1] = "conan build"}

\* the folder right below lib
KeyOf(x) == x[1 + CHOOSE k \in 1..Len(x) : x[k] = "lib"]

\* C20: package() of the Windows context takes the target framework moniker
\* from the <group targetFramework=...> element of the nuspec template: when
\* it invokes nuget the template has a <group> element (without one it has
\* failed before) and, the group being net6.0, every path it wrote under lib
\* is keyed by net6.0.
C20_MonikerFromTemplate ==
  \A i \in 1..Len(log) :
    log[i].op = "nuget" =>
      /\ \E k \in 1..Len(fs[NuspecTemplate]) : fs[NuspecTemplate][k] = GroupTag
      /\ LibPaths # {}
      /\ \A x \in LibPaths : KeyOf(x) = "net6.0"

----------------------------------------------------------------------------
(* The merge of build() *)

\* build() of the Darwin variant p was called, from the top
BuildCalled(p) ==
  /\ Archs(p) # <<>>
  /\ log # <<>>
  /\ log[1].op = "build" /\ log[1].plat = p

\* the places of the merge tool invocations for the framework of p
Merges(p) == {i \in 1..Len(log) : log[i].op = "lipo" /\ log[i].plat = p}

\* the architecture names of the list, joined by '_'
RECURSIVE Underscored(_)
Underscored(archs) ==
  IF Len(archs) = 1 THEN archs
  ELSE <<archs[1], "_">> \o Underscored(Tail(archs))

\* C21: build() of a Darwin context merges exactly when its list has more
\* than one architecture.  With n > 1 the merge tool is invoked once, after a
\* finished build of each of the n architectures in list order; the bundle
\* at the combined location, named by the architecture names joined with
\* '_', is then the copy of the first architecture's framework and not what
\* was there before, and the binary in it is what the merge tool wrote.
\* With n = 1 there is no merge tool invocation and no copy, and build()
\* fails only where the build of the architecture failed.
C21_MergeWhenSeveral ==
  \A p \in DarwinPlatforms :
    BuildCalled(p) =>
      LET archs    == Archs(p)
          n        == Len(archs)
          combined == <<"build">> \o BuildDirectory(p) \o Underscored(archs)
                        \o <<"darwin_target_dir">> \o TargetFolder(p) \o <<"target.framework">>
      IN  /\ Cardinality(Merges(p)) <= 1
          /\ \A i \in Merges(p) :
               /\ n > 1
               /\ i = n + 1
               /\ \A k \in 1..n : log[k].op = "build" /\ log[k].ok /\ log[k].arch = archs[k]
               /\ log[i].args[n + 2] = Arg("-output", Binary(p, combined))
               /\ Exists(fs, combined)
               /\ fs[combined] = Found(Framework(p, <<archs[1]>>))
               /\ log[i].ok => fs[Binary(p, combined)]
                                 = Lipo([k \in 1..n |-> Binary(p, Framework(p, <<archs[k]>>))])
          /\ (n > 1 /\ <<p, "build">> \in returned) => Merges(p) # {}
          /\ n = 1 => /\ Merges(p) = {}
                      /\ \A x \in DOMAIN fs : fs[x] \in {Missing, Found(x), Stale(x)}
                      /\ status.error \in {"running", "none", "ConanException"}

\* build() returned for the list armv8, x86_64 of macos
C21_Witness ==
  /\ BuildCalled("macos")
  /\ Archs("macos") = <<"armv8", "x86_64">>
  /\ <<"macos", "build">> \in returned
  /\ Merges("macos") # {}
  /\ fs[CombinedFramework("macos")] # Stale(CombinedFramework("macos"))

\* build() returned for a list of one architecture
C21_SingleWitness ==
  \E p \in DarwinPlatforms :
    BuildCalled(p) /\ Len(Archs(p)) = 1 /\ <<p, "build">> \in returned

----------------------------------------------------------------------------
(* The merge of the debug symbols *)

\* the dSYM bundle in the folder named by the pieces `folder`
DsymIn(p, folder) ==
  <<"build">> \o BuildDirectory(p) \o folder
    \o <<"darwin_target_dir">> \o TargetFolder(p) \o <<"target.framework.dSYM">>

DwarfIn(p, folder) == DsymIn(p, folder) \o <<"Contents", "Resources", "DWARF", "target">>

\* the places of the merge tool invocations for the debug symbols of p
DsymMerges(p) == {i \in 1..Len(log) : log[i].op = "lipo_dsym" /\ log[i].plat = p}

\* build() of the package has got past the framework merge of p and returned
MergedAndReturned(p) ==
  /\ script = "package"
  /\ Merges(p) # {}
  /\ <<p, "build">> \in returned

\* C22: in a build() of the package that merges, the debug symbols are
\* merged if and only if the first architecture has a dSYM bundle next to
\* its framework.  If it has, the bundle at the combined location is the
\* copy of it and the merge tool was invoked with the DWARF file of each
\* architecture in list order and an output inside the copied bundle; if it
\* has not, build() returns all the same, with no debug-symbol copy and no
\* merge tool invocation for them.
C22_DsymMergedIfPresent ==
  \A p \in DarwinPlatforms :
    MergedAndReturned(p) =>
      LET archs    == Archs(p)
          n        == Len(archs)
          first    == DsymIn(p, <<archs[1]>>)
          combined == DsymIn(p, Underscored(archs))
      IN  /\ first \in DOMAIN fs
          /\ Exists(fs, first) <=> DsymMerges(p) # {}
          /\ \A i \in DsymMerges(p) :
               /\ Len(log[i].args) = n + 2
               /\ \A k \in 1..n : log[i].args[k] = Arg("", DwarfIn(p, <<archs[k]>>))
               /\ log[i].args[n + 1].flag = "-create"
               /\ log[i].args[n + 2] = Arg("-output", DwarfIn(p, Underscored(archs)))
               /\ Exists(fs, combined) /\ fs[combined] = fs[first]
          /\ ~Exists(fs, first) =>
               (combined \in DOMAIN fs => fs[combined] = Stale(combined))

\* the debug symbols of armv8 and x86_64 were merged
C22_Witness ==
  \E p \in DarwinPlatforms :
    /\ MergedAndReturned(p)
    /\ Archs(p) = <<"armv8", "x86_64">>
    /\ DsymMerges(p) # {}

\* build() returned without a dSYM bundle of the first architecture
C22_AbsentWitness ==
  \E p \in DarwinPlatforms :
    /\ MergedAndReturned(p)
    /\ ~Exists(fs, DsymIn(p, <<Archs(p)[1]>>))
    /\ pc = At("main", "done", 0)

----------------------------------------------------------------------------
(* An Android project build that writes no archive *)

\* C23: when gradlew exits with status 0 and has written no archive (the
\* archive in the project is still the one an earlier run left), package()
\* of the Android context ends in a file-not-found error and nothing is
\* copied to the build folder.
C23_NoArchiveFails ==
  (/\ \E i \in 1..Len(log) : log[i].op = "gradlew" /\ log[i].ok
   /\ Exists(fs, ProjectAar)
   /\ fs[ProjectAar] = Stale(ProjectAar))
    => /\ pc = At("main", "exit", 0)
       /\ status.error = "FileNotFoundError"
       /\ ~(Exists(fs, BuildAar) /\ fs[BuildAar] = Stale(ProjectAar))

----------------------------------------------------------------------------
(* The output path of the XCFramework assembly *)

\* the places of the xcodebuild invocations
Assembled == {i \in 1..Len(log) : log[i].op = "xcodebuild"}

\* C24: the XCFramework assembly removes its output path before xcodebuild
\* runs, and a missing output path is no error: after every call the output
\* path holds what the last xcodebuild invocation wrote and nothing else, so
\* it is absent when that invocation wrote nothing, whatever an earlier run
\* or an earlier call had left there; the call itself never fails.
C24_OutputCleaned ==
  Assembled # {} =>
    LET e == log[CHOOSE i \in Assembled : \A j \in Assembled : j <= i] IN
    /\ e.ok => /\ Exists(fs, Xcframework)
               /\ fs[Xcframework] = XcodebuildOutput(SubSeq(e.args, 3, Len(e.args)))
    /\ ~e.ok => Xcframework \notin DOMAIN fs
    /\ status.error # "FileNotFoundError" \/ log[Len(log)].op # "xcodebuild"

\* a second assembly wrote nothing over the XCFramework of the first
C24_Witness ==
  /\ Cardinality(Assembled) = 2
  /\ \E i, j \in Assembled : i < j /\ log[i].ok /\ ~log[j].ok
  /\ Xcframework \notin DOMAIN fs

----------------------------------------------------------------------------
(* The Swift package *)

\* the Swift package step is taken and returns
SwiftpackageReturns ==
  /\ pc = At("darwin", "swiftpackage", 0)
  /\ pc' = At("main", "done", 0)

\* the step starts where an earlier call of it returned
SwiftpackageRepeated ==
  /\ log # <<>>
  /\ log[Len(log)].op = "package" /\ log[Len(log)].arch = "swiftpackage"

\* C25: when the Swift package step returns, the final package location
\* holds the package template and, at bin/<target>.xcframework in it, exactly
\* the XCFramework found at the path the assembly writes to, whatever was at
\* either place before; the XCFramework itself is unchanged.  A step taken
\* right after a step that returned changes nothing.  The step fails only
\* when there is no XCFramework to copy.
C25_SwiftpackageCopy ==
  [][/\ SwiftpackageReturns =>
          /\ Exists(fs, <<"build", "darwin", "package", "target.xcframework">>)
          /\ Exists(fs', <<"build", "darwin", "swiftpackage", "bin", "target.xcframework">>)
          /\ fs'[<<"build", "darwin", "swiftpackage", "bin", "target.xcframework">>]
               = fs[<<"build", "darwin", "package", "target.xcframework">>]
          /\ fs'[<<"build", "darwin", "package", "target.xcframework">>]
               = fs[<<"build", "darwin", "package", "target.xcframework">>]
          /\ Exists(fs', <<"build", "darwin", "swiftpackage">>)
          /\ \A i \in Assembled :
               log[i].args[2] = Arg("-output", <<"build", "darwin", "package", "target.xcframework">>)
          /\ SwiftpackageRepeated => fs' = fs
     /\ (pc = At("darwin", "swiftpackage", 0) /\ pc' = At("main", "exit", 0))
          => ~Exists(fs, <<"build", "darwin", "package", "target.xcframework">>)]_vars

\* the step returned twice, the second time after an assembly, with the
\* XCFramework the assembly wrote in the package
C25_Witness ==
  /\ pc = At("main", "done", 0)
  /\ Len(SelectSeq(log, LAMBDA e : e.op = "package" /\ e.arch = "swiftpackage")) = 2
  /\ Assembled # {}
  /\ Exists(fs, SwiftpackageXcframework)
  /\ fs[SwiftpackageXcframework] = XcodebuildOutput(<<Arg("-framework", CombinedFramework("macos"))>>)

----------------------------------------------------------------------------
(* The settings and env of conan install and conan create *)

\* the value of argument `flag` of event e
Keyword(e, flag) ==
  LET k == CHOOSE k \in 1..Len(e.args) : e.args[k].flag = flag IN e.args[k].path

Flags(e) == [k \in 1..Len(e.args) |-> e.args[k].flag]

\* what the caller of conan_install and conan_create passes for platform p
\* and architecture a
CallerS(p) == IF p \in DarwinPlatforms THEN <<[key |-> "os.sdk", value |-> Sdk(p)]>> ELSE <<>>

CallerE(p, a) ==
  IF script = "legacy" /\ p = "android"
    THEN <<[key |-> "ANDROID_ABI", value |-> AndroidAbi(a)]>> ELSE <<>>

\* the env the context was constructed with
Overrides(p) ==
  IF script = "legacy" /\ p = "android"
    THEN <<[key |-> "CONAN_CMAKE_TOOLCHAIN_FILE", value |-> "conan_cmake_toolchain_file"],
           [key |-> "ANDROID_NDK", value |-> "android_ndk"]>>
    ELSE <<>>

\* C26: every call of conan install and conan create of architecture a
\* that a step makes gets the same lists: as settings the caller's settings, then build_type=<configuration
\* value>, then arch=<conan name of a>, and nothing else; as env the caller's
\* env, then CONAN_RUN_TESTS=False, then the env the context was constructed
\* with, and nothing else.  conan create gets the user and the channel of
\* the context besides, conan install does not.
C26_MergeRule ==
  [][\A i \in (Len(log) + 1)..Len(log') :
       LET e == log'[i] IN
       e.op \in {"install", "create"} =>
         /\ Keyword(e, "settings")
              = CallerS(e.plat) \o <<[key |-> "build_type", value |-> "configuration.value"],
                                     [key |-> "arch", value |-> Architecture[e.arch].conan]>>
         /\ Keyword(e, "env")
              = CallerE(e.plat, e.arch) \o <<[key |-> "CONAN_RUN_TESTS", value |-> "False"]>>
                  \o Overrides(e.plat)
         /\ Flags(e) = IF e.op = "create" THEN <<"settings", "env", "user", "channel">>
                                          ELSE <<"settings", "env">>
         /\ e.op = "create" => /\ Keyword(e, "user") = <<"conan_user">>
                               /\ Keyword(e, "channel") = <<"conan_channel">>]_vars

\* armv8 of macos was installed and its package created
C26_Witness ==
  \E i, j \in 1..Len(log) :
    /\ log[i].op = "install" /\ log[i].plat = "macos" /\ log[i].arch = "armv8" /\ log[i].ok
    /\ log[j].op = "create" /\ log[j].plat = "macos" /\ log[j].arch = "armv8" /\ log[j].ok

\* armv8 of android was installed by the legacy script
C26_AndroidWitness ==
  \E i \in 1..Len(log) :
    /\ script = "legacy"
    /\ log[i].op = "install" /\ log[i].plat = "android" /\ log[i].arch = "armv8" /\ log[i].ok

----------------------------------------------------------------------------
(* One folder per architecture *)

\* path x lies in the folder <build>/<folder>
Under(x, folder) ==
  /\ Len(x) > Len(folder) + 1
  /\ SubSeq(x, 1, Len(folder) + 1) = <<"build">> \o folder

\* the folder conan install was last given for architecture a of platform p
Installed(p, a) ==
  LET s == SelectSeq(log, LAMBDA e : e.op = "install" /\ e.plat = p /\ e.arch = a)
  IN  s[Len(s)].folder

\* the artifacts of single architectures the packaging steps have looked for
ArtifactsRead ==
  {x \in DOMAIN fs : /\ fs[x] \in {Missing, Found(x)}
                     /\ x[1] = "build"}

\* event i of the log names the folder of its architecture
InFolder(i) ==
  LET e == log[i] IN
  /\ e.op \in {"install", "build"} => e.folder = Append(BuildDirectory(e.plat), e.arch)
  /\ e.op = "build" => e.folder = Installed(e.plat, e.arch)
  /\ e.op \in {"lipo", "lipo_dsym"} =>
       \A k \in 1..Len(Archs(e.plat)) :
         Under(e.args[k].path, Installed(e.plat, Archs(e.plat)[k]))

\* the artifacts looked for lie in folders that were installed in, and a
\* failure for a missing artifact has looked there
ReadInFolders ==
  /\ \A x \in ArtifactsRead :
       \E i \in 1..Len(log) : log[i].op = "install" /\ Under(x, log[i].folder)
  /\ (status.error = "FileNotFoundError"
        /\ status.detail \in {<<"framework">>, <<"so">>, <<"jar">>, <<"dll">>})
       => \E x \in ArtifactsRead : fs[x] = Missing

\* C27: install, build and the packaging steps use one folder per
\* architecture, <build directory of the context>/<name of the member>:
\* in every step, conan build of a is given the folder conan install of a
\* was given; every input of the merge tool for a lies in it; every artifact
\* a packaging step has looked for (the reference bundles, the .so and .jar,
\* the DLLs) lies in the folder some architecture was installed in; and a
\* packaging step that ends in file-not-found has looked there and found the
\* artifact missing.
C27_OneFolderPerArchitecture ==
  [][/\ \A i \in (Len(log) + 1)..Len(log') : InFolder(i)'
     /\ ReadInFolders']_vars

\* armv8 and x86_64 of macos were installed, built and merged
C27_Witness ==
  /\ Archs("macos") = <<"armv8", "x86_64">>
  /\ \E i \in 1..Len(log) : log[i].op = "lipo" /\ log[i].plat = "macos"
  /\ \E x \in ArtifactsRead : Under(x, Installed("macos", "armv8"))

----------------------------------------------------------------------------
(* The Swift package step in a run of main *)

\* the places where the Swift package step was entered
SwiftPackaged ==
  {i \in 1..Len(log) : log[i].op = "package" /\ log[i].plat = "darwin" /\ log[i].arch = "swiftpackage"}

\* C28: in a run of main the Swift package step is entered only after
\* xcodebuild was invoked for the XCFramework in the same run, and only when
\* both swiftpackage and xcframework are among the package types; in the
\* package also only when one of --macos, --iphonesimulator, --iphoneos was
\* given.
C28_SwiftpackageAfterXcframework ==
  \A i \in SwiftPackaged :
    /\ \E j \in 1..(i - 1) : log[j].op = "xcodebuild"
    /\ {"swiftpackage", "xcframework"} \subseteq TypesGiven
    /\ script = "package" => \E p \in DarwinPlatforms : arguments.architectures[p].given

\* the package entered the Swift package step
C28_Witness ==
  /\ script = "package"
  /\ SwiftPackaged # {}
  /\ pc = At("main", "done", 0)

----------------------------------------------------------------------------
(* The working directory around the external tools *)

\* this step ended with a command run by _execute
ExecuteReturned ==
  /\ script = "package"
  /\ Len(log') > Len(log)
  /\ log'[Len(log')].op \in {"lipo", "lipo_dsym", "xcodebuild"}

\* this step ran the assemble step of AndroidBuildContext.package()
AssembleRan ==
  /\ Len(log') > Len(log)
  /\ log'[Len(log')].op = "gradlew"

\* C29: a call of _execute that returns leaves the working directory of the
\* process as it was just before the call, whatever the status of the
\* command; package() of the Android context leaves it at the
\* working_directory of the context after the assemble step, when gradlew
\* succeeded and when it failed and the process exits with 2.
C29_WorkingDirectoryRestored ==
  [][/\ ExecuteReturned => environ'.cwd = environ.cwd
     /\ AssembleRan => /\ environ'.cwd = "working_directory"
                       /\ ~log'[Len(log')].ok => status'.error = "SystemExit"]_vars

\* xcodebuild failed in a process that stood outside the directory the
\* command ran in, and the process stands there again
C29_Witness ==
  /\ script = "package"
  /\ environ.cwd # environ.imported
  /\ \E i \in 1..Len(log) : log[i].op = "xcodebuild" /\ ~log[i].ok

\* gradlew failed and the process is in the working_directory
C29_AndroidWitness ==
  /\ \E i \in 1..Len(log) : log[i].op = "gradlew" /\ ~log[i].ok
  /\ status.error = "SystemExit"
  /\ environ.cwd = "working_directory"

----------------------------------------------------------------------------
(* The lists of the contexts are left alone *)

\* this step called conan install, conan build or conan create
ConanCalled ==
  /\ Len(log') = Len(log) + 1
  /\ log'[Len(log')].op \in {"install", "build", "create"}

\* the entries of list s with key k
EntriesOf(s, k) == SelectSeq(s, LAMBDA x : x.key = k)

\* C30: conan_install, conan_create and build leave the settings, env and
\* architecture lists of every context and the default lists unchanged, and
\* the construction of further contexts leaves the lists of the contexts
\* already constructed and the default lists unchanged; the settings passed
\* for architecture a hold exactly one arch entry, the one of a, and exactly
\* one build_type entry, and the lists passed are as long as in every earlier
\* call of the same method on the same context.
C30_ListsLeftAlone ==
  [][/\ ConanCalled =>
          LET e == log'[Len(log')] IN
          /\ heap' = heap
          /\ arguments' = arguments
          /\ e.op \in {"install", "create"} =>
               /\ EntriesOf(Keyword(e, "settings"), "arch")
                    = <<Entry_("arch", Architecture[e.arch].conan)>>
               /\ Len(EntriesOf(Keyword(e, "settings"), "build_type")) = 1
               /\ \A i \in 1..Len(log) :
                    (log[i].op = e.op /\ log[i].plat = e.plat) =>
                      /\ Len(Keyword(log[i], "settings")) = Len(Keyword(e, "settings"))
                      /\ Len(Keyword(log[i], "env")) = Len(Keyword(e, "env"))
     /\ contexts' # contexts =>
          /\ heap'.defaults = heap.defaults
          /\ \A p \in contexts : heap'.self[p] = heap.self[p]]_vars

\* an architecture of macOS was installed and had its package created, then
\* the Linux context was constructed and an architecture of Linux was
\* installed and had its package created
C30_Witness ==
  \E i, j, k, l \in 1..Len(log) :
    /\ i < j /\ j < k /\ k < l
    /\ log[i].op = "install" /\ log[i].plat = "macos"
    /\ log[j].op = "create" /\ log[j].plat = "macos"
    /\ log[k].op = "install" /\ log[k].plat = "linux"
    /\ log[l].op = "create" /\ log[l].plat = "linux"

\* both architectures of one context were installed and had their packages
\* created
C30_SeveralWitness ==
  /\ Len(Archs("macos")) = 2
  /\ \E i \in 1..Len(log) :
       log[i].op = "create" /\ log[i].plat = "macos" /\ log[i].arch = Archs("macos")[2]

====
